---- MODULE Spec2Model ----
(***************************************************************************)
(* The becca graph cache of trilium: notes, parent/child branches and      *)
(* attributes wired into cross-reference arrays, with the memoized derived *)
(* views of BNote (effective attributes, ancestors, note paths).           *)
(*                                                                         *)
(* The whole cache is handled as one record b (the becca instance) so that *)
(* every method is an operator from a cache to a cache and a result; the   *)
(* variables below are the fields of that record.                          *)
(***************************************************************************)
EXTENDS Integers, Sequences, FiniteSets, TLC

VARIABLES
    notes,                      \* becca.notes: ids present in the id-map
    noteType,                   \* BNote.type
    isBeingDeleted,             \* BNote.isBeingDeleted
    parentBranches,             \* BNote.parentBranches (per child, in order)
    parents,                    \* BNote.parents
    children,                   \* BNote.children
    attrs,                      \* every BAttribute object ever constructed
    attributes,                 \* becca.attributes: objects in the id-map
    ownedAttributes,            \* BNote.ownedAttributes
    targetRelations,            \* BNote.targetRelations
    attributeIndex,             \* becca.attributeIndex
    attributeCache,             \* BNote.__attributeCache
    inheritableAttributeCache,  \* BNote.__inheritableAttributeCache
    ancestorCache,              \* BNote.__ancestorCache
    flatTextCache,              \* BNote.__flatTextCache
    now,                        \* dateUtils.utcNowDateTime()
    saves,                      \* number of entity rows written
    stackOverflow,              \* a recursion exceeded RecursionLimit
    handlersRun,                \* handlers.runAttachedRelations calls, with what each saw
    searchContext,              \* the SearchContext of the running search
    pending,                    \* entity rows received and not yet processed
    dataKey,                    \* protected_session: let dataKey
    title,                      \* BNote.title
    isProtected,                \* BNote.isProtected
    isDecrypted,                \* BNote.isDecrypted
    locked,                     \* sync_mutex: the mutex is held
    waiters,                    \* sync_mutex: callers waiting to acquire, in order
    running,                    \* callers whose callback is executing
    partialRequests,            \* sync.js: const partialRequests = {}
    updates,                    \* the bodies handed to syncUpdateService.updateEntities
    pagesSent,                  \* what each sync client sent of its request, and when
    clock,                      \* Date.now(), in minutes
    lastProtectedSessionOperationDate,  \* protected_session: when the session was last touched
    sessionStartedAt,           \* when the data key in use was set
    last                        \* the last operation and what it returned

vars == <<notes, noteType, isBeingDeleted, parentBranches, parents, children,
          attrs, attributes, ownedAttributes, targetRelations, attributeIndex,
          attributeCache, inheritableAttributeCache, ancestorCache, flatTextCache, now,
          saves, stackOverflow, handlersRun, searchContext, pending, dataKey, title, isProtected,
          isDecrypted, locked, waiters, running, partialRequests, updates, pagesSent, clock,
          lastProtectedSessionOperationDate, sessionStartedAt, last>>

\* the notes, branches and attributes of the cache
beccaVars == <<notes, noteType, isBeingDeleted, parentBranches, parents, children,
           attrs, attributes, ownedAttributes, targetRelations, attributeIndex,
           attributeCache, inheritableAttributeCache, ancestorCache, flatTextCache, now,
           saves, stackOverflow, handlersRun>>

\* the cache but the flat texts
beccaButFlatText == <<notes, noteType, isBeingDeleted, parentBranches, parents, children,
                      attrs, attributes, ownedAttributes, targetRelations, attributeIndex,
                      attributeCache, inheritableAttributeCache, ancestorCache, now,
                      saves, stackOverflow, handlersRun>>

\* the protected session and the titles it decrypts
session == <<dataKey, title, isProtected, isDecrypted>>

\* the state outside the cache, and what of it a search, a row or the
\* protected session leaves alone
\* the exclusive-execution primitive
mutex == <<locked, waiters, running>>

\* the paged sync requests
paged == <<partialRequests, updates, pagesSent>>

\* what the expiration of the protected session looks at, the clock apart
expiry == <<lastProtectedSessionOperationDate, sessionStartedAt>>

\* the paged sync requests, the clock and what is timed by it
sync == <<paged, clock, expiry>>

outside == <<searchContext, pending, session, mutex, sync>>
outsideSearch == <<pending, session, mutex, sync>>
outsideRows == <<searchContext, session, mutex, sync>>
outsideSession == <<searchContext, pending, mutex, sync>>
outsideMutex == <<searchContext, pending, session, sync>>
outsideSync == <<searchContext, pending, session, mutex, expiry>>
outsideExpiry == <<searchContext, pending, mutex, paged>>

\* ------------------------------------------------------------------ bounds
MaxOps == 2             \* mutating operations per behaviour
RecursionLimit == 8     \* call depth at which a recursion is cut off
MaxErrors == 4          \* addError calls on one search context

\* --------------------------------------------------------------- universe
NoteIds == {"root", "_hidden", "A", "B", "C", "S", "X"}
AttrTypes == {"label", "relation"}
NullAttrs == <<0>>          \* null for a cache of attribute objects
NullNotes == <<"null">>     \* null for a cache of notes
NullText == {}              \* null for the flat text, kept as its set of words
NoPosition == -1            \* position undefined / null
NoId == 0                   \* attributeId undefined
NoDate == 0                 \* utcDateModified undefined
NoTitle == [text |-> "", encrypted |-> FALSE]
NoParent == "null"          \* parentNote = null
Unreachable == 999999       \* minDistance of a note with no path to the ancestor

\* ---------------------------------------------------------------- helpers
Range(s) == {s[i] : i \in 1..Len(s)}
Includes(s, x) == \E i \in 1..Len(s) : s[i] = x
Max(a, b) == IF a >= b THEN a ELSE b
Min(a, b) == IF a <= b THEN a ELSE b

RECURSIVE Filter(_, _)
Filter(s, keep) ==
    IF s = <<>> THEN <<>>
    ELSE (IF Head(s) \in keep THEN <<Head(s)>> ELSE <<>>) \o Filter(Tail(s), keep)

Becca ==
    [notes |-> notes, noteType |-> noteType, isBeingDeleted |-> isBeingDeleted,
     parentBranches |-> parentBranches, parents |-> parents, children |-> children,
     attrs |-> attrs, attributes |-> attributes,
     ownedAttributes |-> ownedAttributes, targetRelations |-> targetRelations,
     attributeIndex |-> attributeIndex, attributeCache |-> attributeCache,
     inheritableAttributeCache |-> inheritableAttributeCache,
     ancestorCache |-> ancestorCache, flatTextCache |-> flatTextCache,
     now |-> now, saves |-> saves,
     stackOverflow |-> stackOverflow, handlersRun |-> handlersRun,
     title |-> title]

SetBecca(b) ==
    /\ notes' = b.notes
    /\ noteType' = b.noteType
    /\ isBeingDeleted' = b.isBeingDeleted
    /\ parentBranches' = b.parentBranches
    /\ parents' = b.parents
    /\ children' = b.children
    /\ attrs' = b.attrs
    /\ attributes' = b.attributes
    /\ ownedAttributes' = b.ownedAttributes
    /\ targetRelations' = b.targetRelations
    /\ attributeIndex' = b.attributeIndex
    /\ attributeCache' = b.attributeCache
    /\ inheritableAttributeCache' = b.inheritableAttributeCache
    /\ ancestorCache' = b.ancestorCache
    /\ flatTextCache' = b.flatTextCache
    /\ now' = b.now
    /\ saves' = b.saves
    /\ stackOverflow' = b.stackOverflow
    /\ handlersRun' = b.handlersRun

\* ------------------------------------------------ attribute names (strings)
\* String.prototype.toLowerCase on the names the model uses.
ToLowerCase(name) == IF name = "Archived" THEN "archived" ELSE name

\* String.prototype.trim() on the names the model uses.
Trim(name) == IF name = " " THEN "" ELSE name

\* services/sanitize_attribute_name: a leading '#' or '~' is stripped.
sanitizeAttributeName(name) ==
    CASE name = "#archived" -> "archived"
      [] name = "~template" -> "template"
      [] OTHER -> name

\* name.charAt(0) is '#' or '~'
HasSigil(name) == name \in {"#archived", "~template"}

\* ------------------------------------------------- BNote: attribute lookup
isTemplateRelation(a) == a.type = "relation" /\ a.name \in {"template", "inherit"}
isTemplateMarker(a) == a.type = "label" /\ a.name \in {"template", "workspacetemplate"}

\* every note takes its parents' inheritable attributes
inheritsAlways(n) == TRUE

\* if (this.noteId !== 'root' && this.noteId !== '_hidden')
inheritsFromParents(n) == n # "root" /\ n # "_hidden"

\* a de-duplication that keeps every element
DedupNone(b, s, seen) == s

\* the de-duplication loop of __getAttributes: first attributeId wins
RECURSIVE DedupById(_, _, _)
DedupById(b, s, seen) ==
    IF s = <<>> THEN <<>>
    ELSE LET id == b.attrs[Head(s)].attributeId IN
         IF id \in seen THEN DedupById(b, Tail(s), seen)
         ELSE <<Head(s)>> \o DedupById(b, Tail(s), seen \cup {id})

InheritableOnly(b, s) == Filter(s, {h \in Range(s) : b.attrs[h].isInheritable})

RECURSIVE getAttributesRec(_, _, _), getInheritableAttributesRec(_, _, _),
          ParentAttributesLoop(_, _, _, _), TemplateAttributesLoop(_, _, _, _)

\* for (const parentNote of this.parents) parentAttributes.push(...)
ParentAttributesLoop(b, ps, path, acc) ==
    IF ps = <<>> THEN [b |-> b, res |-> acc]
    ELSE LET Push(r) == ParentAttributesLoop(r.b, Tail(ps), path, acc \o r.res)
         IN Push(getInheritableAttributesRec(b, Head(ps), path))

\* for (const ownedAttr of parentAttributes) templateAttributes.push(...)
TemplateAttributesLoop(b, as, path, acc) ==
    IF as = <<>> THEN [b |-> b, res |-> acc]
    ELSE LET a == b.attrs[Head(as)] IN
         IF isTemplateRelation(a) /\ a.value \in b.notes
         THEN LET Kept(r) == Filter(r.res, {h \in Range(r.res) : ~isTemplateMarker(r.b.attrs[h])})
                  Push(r) == TemplateAttributesLoop(r.b, Tail(as), path, acc \o Kept(r))
              IN Push(getAttributesRec(b, a.value, path))
         ELSE TemplateAttributesLoop(b, Tail(as), path, acc)

\* __getAttributes(path) without its "we're in a cycle" return
getAttributesUnguarded(b, n, path) ==
    IF Len(path) >= RecursionLimit THEN [b |-> [b EXCEPT !.stackOverflow = TRUE], res |-> <<>>]
    ELSE IF b.attributeCache[n] # NullAttrs THEN [b |-> b, res |-> b.attributeCache[n]]
    ELSE LET newPath == Append(path, n)
             Memoize(b1, cache) ==
                 [b |-> [b1 EXCEPT !.attributeCache[n] = cache,
                                   !.inheritableAttributeCache[n] = InheritableOnly(b1, cache)],
                  res |-> cache]
             Dedup(parentAttributes, t) ==
                 Memoize(t.b, DedupById(t.b, parentAttributes \o t.res, {}))
             Templates(p) == Dedup(p.res, TemplateAttributesLoop(p.b, p.res, newPath, <<>>))
         IN Templates(IF inheritsFromParents(n)
                      THEN ParentAttributesLoop(b, b.parents[n], newPath, b.ownedAttributes[n])
                      ELSE [b |-> b, res |-> b.ownedAttributes[n]])

\* BNote.__getAttributes(path)
getAttributesRec(b, n, path) ==
    IF Len(path) >= RecursionLimit THEN [b |-> [b EXCEPT !.stackOverflow = TRUE], res |-> <<>>]
    ELSE IF Includes(path, n) THEN [b |-> b, res |-> <<>>]
    ELSE IF b.attributeCache[n] # NullAttrs THEN [b |-> b, res |-> b.attributeCache[n]]
    ELSE LET newPath == Append(path, n)
             Memoize(b1, cache) ==
                 [b |-> [b1 EXCEPT !.attributeCache[n] = cache,
                                   !.inheritableAttributeCache[n] = InheritableOnly(b1, cache)],
                  res |-> cache]
             Dedup(parentAttributes, t) ==
                 Memoize(t.b, DedupById(t.b, parentAttributes \o t.res, {}))
             Templates(p) == Dedup(p.res, TemplateAttributesLoop(p.b, p.res, newPath, <<>>))
         IN Templates(IF inheritsFromParents(n)
                      THEN ParentAttributesLoop(b, b.parents[n], newPath, b.ownedAttributes[n])
                      ELSE [b |-> b, res |-> b.ownedAttributes[n]])

\* BNote.__getInheritableAttributes(path)
getInheritableAttributesRec(b, n, path) ==
    IF Includes(path, n) THEN [b |-> b, res |-> <<>>]
    ELSE IF b.inheritableAttributeCache[n] = NullAttrs
         THEN LET Inheritable(b1) ==
                      [b |-> b1,
                       res |-> IF b1.inheritableAttributeCache[n] = NullAttrs THEN <<>>
                               ELSE b1.inheritableAttributeCache[n]]
              IN Inheritable(getAttributesRec(b, n, path).b)
         ELSE [b |-> b, res |-> b.inheritableAttributeCache[n]]

\* BNote.getAttributes() with __ensureAttributeCacheIsAvailable
getAttributes(b, n) ==
    IF b.attributeCache[n] # NullAttrs THEN [b |-> b, res |-> b.attributeCache[n]]
    ELSE getAttributesRec(b, n, <<>>)

\* BNote.hasAttribute(type, name)
hasAttribute(b, n, type, name) ==
    LET Some(as) == \E i \in 1..Len(as) : b.attrs[as[i]].name = name /\ b.attrs[as[i]].type = type
    IN Some(getAttributes(b, n).res)

\* BNote.isArchived
isArchived(b, n) == hasAttribute(b, n, "label", "archived")

\* BNote.getOwnedAttributes(): without a filter, the list itself
getAllOwnedAttributes(b, n) == b.ownedAttributes[n]

\* BNote.getOwnedAttributes(type, name): the two-argument filter
getOwnedAttributes(b, n, type, name) ==
    Filter(b.ownedAttributes[n],
           {h \in Range(b.ownedAttributes[n]) : b.attrs[h].name = name /\ b.attrs[h].type = type})

\* BNote.getOwnedAttributes(type, name, value): the three-argument filter
getOwnedAttributesByValue(b, n, type, name, value) ==
    Filter(b.ownedAttributes[n],
           {h \in Range(b.ownedAttributes[n]) :
               b.attrs[h].name = name /\ b.attrs[h].value = value /\ b.attrs[h].type = type})

\* BNote.getOwnedAttribute(type, name): first match or null (0)
getOwnedAttribute(b, n, type, name) ==
    LET First(as) == IF Len(as) > 0 THEN as[1] ELSE 0
    IN First(getOwnedAttributes(b, n, type, name))

\* BNote.isInherited()
isInherited(b, n) ==
    \E i \in 1..Len(b.targetRelations[n]) :
        b.attrs[b.targetRelations[n][i]].name \in {"template", "inherit"}

\* ------------------------------------------------- BNote: invalidation
\* BNote.invalidateThisCache()
invalidateThisCache(b, n) ==
    [b EXCEPT !.flatTextCache[n] = NullText,
              !.attributeCache[n] = NullAttrs,
              !.inheritableAttributeCache[n] = NullAttrs,
              !.ancestorCache[n] = NullNotes]

\* a loop over the target relations that follows none of them
InvalidateNoRelations(b, rs, path) == b

RECURSIVE invalidateSubTree(_, _, _), InvalidateChildrenLoop(_, _, _),
          InvalidateTargetRelationsLoop(_, _, _)

\* for (const childNote of this.children) childNote.invalidateSubTree(path)
InvalidateChildrenLoop(b, cs, path) ==
    IF cs = <<>> THEN b
    ELSE InvalidateChildrenLoop(invalidateSubTree(b, Head(cs), path), Tail(cs), path)

\* for (const targetRelation of this.targetRelations) ...
InvalidateTargetRelationsLoop(b, rs, path) ==
    IF rs = <<>> THEN b
    ELSE LET a == b.attrs[Head(rs)] IN
         IF a.name \in {"template", "inherit"} /\ a.noteId \in b.notes
         THEN InvalidateTargetRelationsLoop(invalidateSubTree(b, a.noteId, path), Tail(rs), path)
         ELSE InvalidateTargetRelationsLoop(b, Tail(rs), path)

\* invalidateSubTree(path) that stops at the note itself
invalidateWithoutCascade(b, n, path) == invalidateThisCache(b, n)

\* BNote.invalidateSubTree(path)
invalidateSubTree(b, n, path) ==
    IF Len(path) >= RecursionLimit THEN [b EXCEPT !.stackOverflow = TRUE]
    ELSE IF Includes(path, n) THEN b
    ELSE LET b1 == invalidateThisCache(b, n)
             newPath == IF Len(b.children[n]) > 0 \/ Len(b.targetRelations[n]) > 0
                        THEN Append(path, n) ELSE path
             b2 == InvalidateChildrenLoop(b1, b.children[n], newPath)
         IN InvalidateTargetRelationsLoop(b2, b.targetRelations[n], newPath)

\* ------------------------------------------------------------ BAttribute
\* BAttribute.isAffectingSubtree
isAffectingSubtree(a) ==
    a.isInheritable \/ (a.type = "relation" /\ a.name \in {"template", "inherit"})

\* BAttribute.isDeleted
attributeIsDeleted(b, h) == h \notin b.attributes

\* new BNote({noteId}): the skeleton note created for an unknown owner
SkeletonNote(b, n) ==
    [b EXCEPT !.notes = @ \cup {n},
              !.noteType[n] = "",
              !.isBeingDeleted[n] = FALSE,
              !.parentBranches[n] = <<>>,
              !.parents[n] = <<>>,
              !.children[n] = <<>>,
              !.ownedAttributes[n] = <<>>,
              !.targetRelations[n] = <<>>,
              !.attributeCache[n] = NullAttrs,
              !.inheritableAttributeCache[n] = NullAttrs,
              !.ancestorCache[n] = NullNotes]

IndexKey(a) == <<a.type, ToLowerCase(a.name)>>

IndexPush(idx, key, h) ==
    IF key \in DOMAIN idx THEN [idx EXCEPT ![key] = Append(@, h)]
    ELSE idx @@ (key :> <<h>>)

\* new BAttribute(row): update() then init(); the object becomes attrs[h]
BAttributeNew(b, row) ==
    LET h == Len(b.attrs) + 1
        a == [attributeId |-> row.attributeId, noteId |-> row.noteId, type |-> row.type,
              name |-> row.name, value |-> row.value,
              isInheritable |-> row.isInheritable, position |-> row.position,
              utcDateModified |-> row.utcDateModified]
        b0 == [b EXCEPT !.attrs = Append(@, a),
                        !.attributes = IF a.attributeId # NoId THEN @ \cup {h} ELSE @]
        b1 == IF a.noteId \in b0.notes THEN b0 ELSE SkeletonNote(b0, a.noteId)
        b2 == [b1 EXCEPT !.ownedAttributes[a.noteId] = Append(@, h),
                         !.attributeIndex = IndexPush(@, IndexKey(a), h)]
    IN [b |-> IF a.type = "relation" /\ a.value \in b2.notes
              THEN [b2 EXCEPT !.targetRelations[a.value] = Append(@, h)]
              ELSE b2,
        h |-> h]

\* a validation that checks the type alone
validateTypeOnly(b, h) == b.attrs[h].type \in {"label", "relation"}

\* BAttribute.validate(): TRUE when it does not throw
validate(b, h) ==
    LET a == b.attrs[h] IN
    /\ a.type \in {"label", "relation"}
    /\ Trim(a.name) # ""
    /\ (a.type = "relation" => a.value \in b.notes)

RECURSIVE MaxPosition(_, _)
\* .reduce((maxPosition, attr) => Math.max(maxPosition, attr.position || 0), 0)
MaxPosition(b, s) ==
    IF s = <<>> THEN 0
    ELSE LET pos == b.attrs[Head(s)].position
         IN Max(IF pos = NoPosition THEN 0 ELSE pos, MaxPosition(b, Tail(s)))

\* BAttribute.beforeSaving(): ok = FALSE when validate() throws
beforeSaving(b, h) ==
    IF ~validate(b, h) THEN [b |-> b, ok |-> FALSE]
    ELSE LET a == b.attrs[h]
             id == IF a.attributeId = NoId THEN h ELSE a.attributeId
             Write(b1, pos) ==
                 [b |-> [b1 EXCEPT !.attrs[h].name = sanitizeAttributeName(a.name),
                                   !.attrs[h].position = pos,
                                   !.attrs[h].utcDateModified = b.now + 1,
                                   !.attrs[h].attributeId = id,
                                   !.now = b.now + 1,
                                   !.attributes = @ \cup {h}],
                  ok |-> TRUE]
             Position(r) == Write(r.b, MaxPosition(r.b, r.res) + 10)
         IN IF a.position = NoPosition THEN Position(getAttributes(b, a.noteId))
            ELSE Write(b, a.position)

\* becca_loader attributeUpdated(): invalidate what the attribute can reach
attributeUpdated(b, h) ==
    LET a == b.attrs[h] IN
    IF a.noteId \notin b.notes THEN b
    ELSE IF isAffectingSubtree(a) \/ isInherited(b, a.noteId)
         THEN invalidateSubTree(b, a.noteId, <<>>)
         ELSE invalidateThisCache(b, a.noteId)

\* AbstractBeccaEntity.save() of an attribute: beforeSaving, write, notify
saveAttribute(b, h) ==
    LET Saved(r) ==
            IF ~r.ok THEN r
            ELSE [b |-> attributeUpdated([r.b EXCEPT !.saves = @ + 1], h), ok |-> TRUE]
    IN Saved(beforeSaving(b, h))

\* becca_loader attributeDeleted(): unwire the attribute from the cache
attributeDeleted(b, h) ==
    IF h \notin b.attributes THEN b
    ELSE LET a == b.attrs[h]
             key == IndexKey(a)
             Unwire(bi) ==
                 [bi EXCEPT !.ownedAttributes[a.noteId] = Filter(@, Range(@) \ {h}),
                            !.targetRelations =
                                IF a.type = "relation" /\ a.value \in b.notes
                                THEN [@ EXCEPT ![a.value] = Filter(@, Range(@) \ {h})]
                                ELSE @]
             Unregister(b1) ==
                 [b1 EXCEPT !.attributes = @ \ {h},
                            !.attributeIndex =
                                IF key \in DOMAIN @
                                THEN [@ EXCEPT ![key] = Filter(@, Range(@) \ {h})]
                                ELSE @]
         IN Unregister(IF a.noteId \in b.notes
                       THEN Unwire(IF isAffectingSubtree(a) \/ isInherited(b, a.noteId)
                                   THEN invalidateSubTree(b, a.noteId, <<>>)
                                   ELSE invalidateThisCache(b, a.noteId))
                       ELSE b)

\* AbstractBeccaEntity.markAsDeleted() of an attribute
markAttributeAsDeleted(b, h) == attributeDeleted([b EXCEPT !.saves = @ + 1], h)

\* ------------------------------------------------ BNote: mutation helpers
\* addAttribute() that does not hand the value to the new attribute
addAttributeWithoutValue(b, n, type, name, value, isInheritable, position) ==
    LET Result(r, h) == [b |-> r.b, ok |-> r.ok, h |-> h]
        Save(c) == Result(saveAttribute(c.b, c.h), c.h)
    IN Save(BAttributeNew(b, [attributeId |-> NoId, noteId |-> n, type |-> type,
                              name |-> name, value |-> "",
                              isInheritable |-> isInheritable, position |-> position,
                              utcDateModified |-> NoDate]))

\* BNote.addAttribute(type, name, value, isInheritable, position)
addAttribute(b, n, type, name, value, isInheritable, position) ==
    LET Result(r, h) == [b |-> r.b, ok |-> r.ok, h |-> h]
        Save(c) == Result(saveAttribute(c.b, c.h), c.h)
    IN Save(BAttributeNew(b, [attributeId |-> NoId, noteId |-> n, type |-> type,
                              name |-> name, value |-> value,
                              isInheritable |-> isInheritable, position |-> position,
                              utcDateModified |-> NoDate]))

\* attributes.find(attr => attr.type === type && attr.name === name)
FindOwned(b, n, type, name) == getOwnedAttribute(b, n, type, name)

\* BNote.setAttribute(type, name, value)
setAttribute(b, n, type, name, value) ==
    LET Result(r, h) == [b |-> r.b, ok |-> r.ok, h |-> h]
        Set(h) ==
            IF h # 0
            THEN IF b.attrs[h].value # value
                 THEN Result(saveAttribute([b EXCEPT !.attrs[h].value = value], h), h)
                 ELSE [b |-> b, ok |-> TRUE, h |-> h]
            ELSE addAttribute(b, n, type, name, value, FALSE, NoPosition)
    IN Set(FindOwned(b, n, type, name))

RECURSIVE RemoveLoop(_, _, _, _, _)
RemoveLoop(b, as, type, name, value) ==
    IF as = <<>> THEN b
    ELSE LET a == b.attrs[Head(as)] IN
         IF a.type = type /\ a.name = name /\ a.value = value
         THEN RemoveLoop(markAttributeAsDeleted(b, Head(as)), Tail(as), type, name, value)
         ELSE RemoveLoop(b, Tail(as), type, name, value)

\* BNote.removeAttribute(type, name, value)
removeAttribute(b, n, type, name, value) ==
    RemoveLoop(b, b.ownedAttributes[n], type, name, value)

\* ------------------------------------------------ BNote: ancestors, paths
RECURSIVE getAncestors(_, _), AncestorsParentLoop(_, _, _), PushMissing(_, _)

\* push every element of as, held already or not
PushAll(list, as) == list \o as

\* push every element of as that the list does not hold yet
PushMissing(list, as) ==
    IF as = <<>> THEN list
    ELSE PushMissing(IF Includes(list, Head(as)) THEN list ELSE Append(list, Head(as)), Tail(as))

\* for (const parent of this.parents) { ... } of getAncestors
AncestorsParentLoop(b, n, ps) ==
    IF ps = <<>> THEN b
    ELSE IF Includes(b.ancestorCache[n], Head(ps)) THEN AncestorsParentLoop(b, n, Tail(ps))
    ELSE LET Push(r) ==
                 AncestorsParentLoop([r.b EXCEPT !.ancestorCache[n] = PushMissing(@, r.res)],
                                     n, Tail(ps))
         IN Push(getAncestors([b EXCEPT !.ancestorCache[n] = Append(@, Head(ps))], Head(ps)))

\* BNote.getAncestors()
getAncestors(b, n) ==
    IF b.ancestorCache[n] # NullNotes THEN [b |-> b, res |-> b.ancestorCache[n]]
    ELSE LET Memoized(b1) == [b |-> b1, res |-> b1.ancestorCache[n]]
         IN Memoized(AncestorsParentLoop([b EXCEPT !.ancestorCache[n] = <<>>], n, b.parents[n]))

\* BNote.hasAncestor(ancestorNoteId)
hasAncestor(b, n, ancestorNoteId) == Includes(getAncestors(b, n).res, ancestorNoteId)

RECURSIVE getAllNotePaths(_, _, _), FlatMapParentPaths(_, _, _)

\* the single-parent shortcut taken whatever the number of parents
FirstParentPaths(b, ps, depth) ==
    IF ps = <<>> THEN <<>> ELSE getAllNotePaths(b, Head(ps), depth)

\* parentNotes.flatMap(parentNote => parentNote.getAllNotePaths())
FlatMapParentPaths(b, ps, depth) ==
    IF ps = <<>> THEN <<>>
    ELSE getAllNotePaths(b, Head(ps), depth) \o FlatMapParentPaths(b, Tail(ps), depth)

\* BNote.getAllNotePaths(); depth counts the nested calls
getAllNotePaths(b, n, depth) ==
    IF depth >= RecursionLimit THEN <<>>
    ELSE IF n = "root" THEN << <<"root">> >>
    ELSE LET PushEach(notePaths) == [i \in 1..Len(notePaths) |-> Append(notePaths[i], n)]
         IN PushEach(FlatMapParentPaths(b, b.parents[n], depth + 1))

RECURSIVE PathSomeArchived(_, _)
\* path.some(noteId => this.becca.notes[noteId].isArchived), caches filled on the way
PathSomeArchived(b, path) ==
    IF path = <<>> THEN [b |-> b, res |-> FALSE]
    ELSE LET Some(r) ==
                 IF \E i \in 1..Len(r.res) :
                       r.b.attrs[r.res[i]].name = "archived" /\ r.b.attrs[r.res[i]].type = "label"
                 THEN [b |-> r.b, res |-> TRUE]
                 ELSE PathSomeArchived(r.b, Tail(path))
         IN Some(getAttributes(b, Head(path)))

RECURSIVE NotePathRecords(_, _, _)
\* this.getAllNotePaths().map(path => ({notePath, isInHoistedSubTree, isArchived, isHidden}))
NotePathRecords(b, paths, hoistedNoteId) ==
    IF paths = <<>> THEN [b |-> b, res |-> <<>>]
    ELSE LET path == Head(paths)
             Record(archived) ==
                 [notePath |-> path,
                  isInHoistedSubTree |-> (hoistedNoteId = "root" \/ Includes(path, hoistedNoteId)),
                  isArchived |-> archived,
                  isHidden |-> Includes(path, "_hidden")]
             Prepend(rec, rest) == [b |-> rest.b, res |-> <<rec>> \o rest.res]
             Map(a) == Prepend(Record(a.res), NotePathRecords(a.b, Tail(paths), hoistedNoteId))
         IN Map(PathSomeArchived(b, path))

\* a comparator that looks at the length only
ComparePathLengths(x, y) == Len(x.notePath) - Len(y.notePath)

\* the comparator of getSortedNotePathRecords: negative when a sorts before b
ComparePathRecords(x, y) ==
    IF x.isInHoistedSubTree # y.isInHoistedSubTree THEN (IF x.isInHoistedSubTree THEN -1 ELSE 1)
    ELSE IF x.isArchived # y.isArchived THEN (IF x.isArchived THEN 1 ELSE -1)
    ELSE IF x.isHidden # y.isHidden THEN (IF x.isHidden THEN 1 ELSE -1)
    ELSE Len(x.notePath) - Len(y.notePath)

RECURSIVE InsertSorted(_, _), SortRecords(_)
\* Array.prototype.sort is stable: x goes after every element it does not precede
InsertSorted(sorted, x) ==
    IF sorted = <<>> THEN <<x>>
    ELSE IF ComparePathRecords(x, Head(sorted)) < 0 THEN <<x>> \o sorted
    ELSE <<Head(sorted)>> \o InsertSorted(Tail(sorted), x)

SortRecords(s) ==
    IF s = <<>> THEN <<>>
    ELSE InsertSorted(SortRecords(SubSeq(s, 1, Len(s) - 1)), s[Len(s)])

\* BNote.getSortedNotePathRecords(hoistedNoteId)
getSortedNotePathRecords(b, n, hoistedNoteId) ==
    LET Sorted(r) == [b |-> r.b, res |-> SortRecords(r.res)]
    IN Sorted(NotePathRecords(b, getAllNotePaths(b, n, 0), hoistedNoteId))

\* BNote.getBestNotePath(hoistedNoteId): <<>> stands for undefined
getBestNotePath(b, n, hoistedNoteId) ==
    LET First(r) == [b |-> r.b, res |-> IF Len(r.res) > 0 THEN r.res[1].notePath ELSE <<>>]
    IN First(getSortedNotePathRecords(b, n, hoistedNoteId))

\* an areAllNotePathsArchived that takes the last of the sorted records
areSomeNotePathsArchived(b, n) ==
    LET Worst(r) == IF r.res = <<>> THEN [b |-> r.b, res |-> FALSE, thrown |-> TRUE]
                    ELSE [b |-> r.b, res |-> r.res[Len(r.res)].isArchived, thrown |-> FALSE]
    IN Worst(getSortedNotePathRecords(b, n, "root"))

\* BNote.areAllNotePathsArchived(): thrown when there is no note path
areAllNotePathsArchived(b, n) ==
    LET Best(r) == IF r.res = <<>> THEN [b |-> r.b, res |-> FALSE, thrown |-> TRUE]
                   ELSE [b |-> r.b, res |-> r.res[1].isArchived, thrown |-> FALSE]
    IN Best(getSortedNotePathRecords(b, n, "root"))

RECURSIVE isHiddenCompletely(_, _), HiddenParentsLoop(_, _)
\* for (const parentNote of this.parents) of isHiddenCompletely
HiddenParentsLoop(b, ps) ==
    IF ps = <<>> THEN TRUE
    ELSE IF Head(ps) = "root" THEN FALSE
    ELSE IF Head(ps) = "_hidden" THEN HiddenParentsLoop(b, Tail(ps))
    ELSE IF ~isHiddenCompletely(b, Head(ps)) THEN FALSE
    ELSE HiddenParentsLoop(b, Tail(ps))

\* BNote.isHiddenCompletely()
isHiddenCompletely(b, n) ==
    IF n = "root" THEN FALSE ELSE HiddenParentsLoop(b, b.parents[n])

\* the comparator of sortParents: it looks at its first argument only; a
\* branch whose parent note is not in the cache has no parentNote
CompareParentBranches(b, x, y) ==
    IF x.parentNoteId \in b.notes /\ isArchived(b, x.parentNoteId) THEN 1
    ELSE IF x.parentNoteId \in b.notes /\ isHiddenCompletely(b, x.parentNoteId) THEN 1
    ELSE 0

\* the orders an array of k elements can be put in
Orders(k) == {p \in [1..k -> 1..k] : \A i, j \in 1..k : i # j => p[i] # p[j]}

\* BNote.sortParents(). Array.prototype.sort keeps the order when the
\* comparator is consistent (here: 0 for every pair); when it is not, the order
\* is left to the implementation, and order is the one it takes
sortParents(b, n, order) ==
    LET branches == b.parentBranches[n]
        consistent == \A i \in 1..Len(branches) :
                         CompareParentBranches(b, branches[i], branches[i]) = 0
        SortedBy(o) == [i \in 1..Len(branches) |-> branches[o[i]]]
        Sorted(s) ==
            [b EXCEPT !.parentBranches[n] = s,
                      !.parents[n] = Filter([i \in 1..Len(s) |-> s[i].parentNoteId], b.notes)]
    IN Sorted(IF consistent THEN branches ELSE SortedBy(order))

\* ------------------------------------------------ BNote: subtree, distance
\* a searchFromNote that returns the ids as the query or the script gave them
searchFromNoteUnfiltered(n, ids) == ids

\* searchFromNote(note): ids is what the query or the search script of the
\* note gave; the note's own id and root are taken out
searchFromNote(n, ids) == Filter(ids, Range(ids) \ {"root", n})

\* BNote.getSearchResultNotes(): found[n] tells whether the search of n throws
\* and the ids it gives otherwise; a throw is caught and logged, ids without a
\* note are dropped
getSearchResultNotes(b, n, found) ==
    IF b.noteType[n] # "search" THEN [res |-> <<>>, thrown |-> FALSE]
    ELSE IF found[n].thrown THEN [res |-> <<>>, thrown |-> TRUE]
    ELSE [res |-> Filter(searchFromNote(n, found[n].ids), b.notes), thrown |-> FALSE]

RECURSIVE addSubtreeNotesInner(_, _, _, _), SubtreeChildrenLoop(_, _, _, _)

\* a loop over the children that stops after the first child
SubtreeFirstChildOnly(acc, cs, parentNote, opts) ==
    IF cs = <<>> THEN acc
    ELSE addSubtreeNotesInner(acc, Head(cs), parentNote, opts)

\* for (const childNote of note.children) addSubtreeNotesInner(childNote, note)
\* and resolveSearchNote: for (const resultNote of ...getSearchResultNotes())
SubtreeChildrenLoop(acc, cs, parentNote, opts) ==
    IF cs = <<>> THEN acc
    ELSE SubtreeChildrenLoop(addSubtreeNotesInner(acc, Head(cs), parentNote, opts),
                             Tail(cs), parentNote, opts)

\* addSubtreeNotesInner(note, parentNote) of getSubtree; acc holds the cache,
\* noteSet (in insertion order), relationships and the number of logged errors
addSubtreeNotesInner(acc, n, parentNote, opts) ==
    IF n = "_hidden" /\ ~opts.includeHidden THEN acc
    ELSE LET Resolve(acc3, r) ==
                 SubtreeChildrenLoop([acc3 EXCEPT !.logged = @ + (IF r.thrown THEN 1 ELSE 0)],
                                     r.res, n, opts)
             Visit(acc2) ==
                 IF acc2.b.noteType[n] = "search"
                 THEN (IF opts.resolveSearch
                       THEN Resolve(acc2, getSearchResultNotes(acc2.b, n, opts.found))
                       ELSE acc2)
                 ELSE SubtreeChildrenLoop(acc2, acc2.b.children[n], n, opts)
             Add(acc1, r) ==
                 IF ~opts.includeArchived /\ (\E i \in 1..Len(r.res) :
                        r.b.attrs[r.res[i]].name = "archived" /\ r.b.attrs[r.res[i]].type = "label")
                 THEN [acc1 EXCEPT !.b = r.b]
                 ELSE Visit([acc1 EXCEPT !.b = r.b, !.notes = Append(@, n)])
             Related(acc1) ==
                 IF Includes(acc1.notes, n) THEN acc1
                 ELSE Add(acc1, IF opts.includeArchived THEN [b |-> acc1.b, res |-> <<>>]
                                ELSE getAttributes(acc1.b, n))
         IN Related(IF parentNote # NoParent
                    THEN [acc EXCEPT !.relationships =
                              Append(@, [parentNoteId |-> parentNote, childNoteId |-> n])]
                    ELSE acc)

\* BNote.getSubtree({includeArchived, includeHidden, resolveSearch})
getSubtreeWith(b, n, opts) ==
    addSubtreeNotesInner([b |-> b, notes |-> <<>>, relationships |-> <<>>, logged |-> 0],
                         n, NoParent, opts)

\* BNote.getSubtree({includeArchived, includeHidden}) with resolveSearch = false
getSubtree(b, n, includeArchived, includeHidden) ==
    getSubtreeWith(b, n, [includeArchived |-> includeArchived, includeHidden |-> includeHidden,
                          resolveSearch |-> FALSE, found |-> <<>>])

RECURSIVE getDistanceToAncestor(_, _, _, _), DistanceParentsLoop(_, _, _, _, _)

\* the distance through the first parent only
DistanceViaFirstParent(b, ps, ancestorNoteId, depth, minDistance) ==
    IF ps = <<>> THEN minDistance
    ELSE Min(minDistance, getDistanceToAncestor(b, Head(ps), ancestorNoteId, depth) + 1)

RECURSIVE DistanceSentinelGrows(_, _, _, _, _)
\* the loop without the cap of Math.min on the first parent's distance
DistanceSentinelGrows(b, ps, ancestorNoteId, depth, minDistance) ==
    IF ps = <<>> THEN minDistance
    ELSE DistanceSentinelGrows(b, Tail(ps), ancestorNoteId, depth,
             IF minDistance = Unreachable
             THEN getDistanceToAncestor(b, Head(ps), ancestorNoteId, depth) + 1
             ELSE Min(minDistance, getDistanceToAncestor(b, Head(ps), ancestorNoteId, depth) + 1))

\* for (const parent of this.parents) minDistance = Math.min(minDistance, ... + 1)
DistanceParentsLoop(b, ps, ancestorNoteId, depth, minDistance) ==
    IF ps = <<>> THEN minDistance
    ELSE DistanceParentsLoop(b, Tail(ps), ancestorNoteId, depth,
             Min(minDistance, getDistanceToAncestor(b, Head(ps), ancestorNoteId, depth) + 1))

\* BNote.getDistanceToAncestor(ancestorNoteId); depth counts the nested calls
getDistanceToAncestor(b, n, ancestorNoteId, depth) ==
    IF depth >= RecursionLimit THEN Unreachable
    ELSE IF n = ancestorNoteId THEN 0
    ELSE DistanceParentsLoop(b, b.parents[n], ancestorNoteId, depth + 1, Unreachable)

\* ------------------------------------------------------- SearchContext
NullError == <<>>           \* this.error = null; a string e is held as <<e>>

\* new SearchContext(): this.error = null
SearchContextNew == [error |-> NullError]

\* JavaScript truthiness of null or a string
Truthy(v) == v # NullError /\ v # <<"">>

\* an addError that keeps the last error
addErrorLastWins(ctx, error) == [ctx EXCEPT !.error = <<error>>]

\* SearchContext.addError(error): if (!this.error) this.error = error
addError(ctx, error) == IF ~Truthy(ctx.error) THEN [ctx EXCEPT !.error = <<error>>] ELSE ctx

\* SearchContext.hasError(): !!this.error
hasError(ctx) == Truthy(ctx.error)

\* SearchContext.getError()
getError(ctx) == ctx.error

\* ---------------------------------------------------------- AncestorExp
\* A depth condition is the sequence of its characters; <<>> is undefined.
Digits == <<"0", "1", "2", "3", "4", "5", "6", "7", "8", "9">>
IsDigit(ch) == Includes(Digits, ch)
DigitValue(ch) == (CHOOSE i \in 1..10 : Digits[i] = ch) - 1
NaN == [nan |-> TRUE, val |-> 0]

\* String.prototype.substr(start)
Substr(str, start) == SubSeq(str, start + 1, Len(str))

\* String.prototype.startsWith(prefix)
StartsWith(str, prefix) ==
    Len(str) >= Len(prefix) /\ SubSeq(str, 1, Len(prefix)) = prefix

RECURSIVE ParseDigits(_, _)
\* the longest run of leading decimal digits, read as a number
ParseDigits(str, acc) ==
    IF str = <<>> \/ ~IsDigit(Head(str)) THEN acc
    ELSE ParseDigits(Tail(str), 10 * acc + DigitValue(Head(str)))

\* parseInt(str): an optional sign and the leading digits; NaN without a digit
parseInt(str) ==
    LET Unsigned(digits, sign) ==
            IF digits = <<>> \/ ~IsDigit(Head(digits)) THEN NaN
            ELSE [nan |-> FALSE, val |-> sign * ParseDigits(digits, 0)]
    IN IF str # <<>> /\ Head(str) = "-" THEN Unsigned(Tail(str), -1)
       ELSE IF str # <<>> /\ Head(str) = "+" THEN Unsigned(Tail(str), 1)
       ELSE Unsigned(str, 1)

NoComparator == [kind |-> "null", comparedDepth |-> NaN, logged |-> 0]

\* AncestorExp.getComparator(depthCondition); logged counts log.error calls
getComparator(depthCondition) ==
    IF depthCondition = <<>> THEN NoComparator
    ELSE LET Choose(comparedDepth) ==
                 IF StartsWith(depthCondition, <<"e", "q">>)
                 THEN [kind |-> "eq", comparedDepth |-> comparedDepth, logged |-> 0]
                 ELSE IF StartsWith(depthCondition, <<"g", "t">>)
                 THEN [kind |-> "gt", comparedDepth |-> comparedDepth, logged |-> 0]
                 ELSE IF StartsWith(depthCondition, <<"l", "t">>)
                 THEN [kind |-> "lt", comparedDepth |-> comparedDepth, logged |-> 0]
                 ELSE [NoComparator EXCEPT !.logged = 1]
         IN Choose(parseInt(Substr(depthCondition, 2)))

\* the comparator applied to a depth; every comparison with NaN is false
Compare(comparator, depth) ==
    /\ ~comparator.comparedDepth.nan
    /\ CASE comparator.kind = "eq" -> depth = comparator.comparedDepth.val
         [] comparator.kind = "gt" -> depth > comparator.comparedDepth.val
         [] comparator.kind = "lt" -> depth < comparator.comparedDepth.val

\* new AncestorExp(ancestorNoteId, ancestorDepth)
AncestorExpNew(ancestorNoteId, ancestorDepth) ==
    [ancestorNoteId |-> ancestorNoteId, ancestorDepth |-> ancestorDepth,
     ancestorDepthComparator |-> getComparator(ancestorDepth)]

\* services/search/note_set: the notes of this set that the other set has
Intersection(noteSeq, noteSet) == Filter(noteSeq, noteSet)

\* AncestorExp.execute(inputNoteSet, executionContext, searchContext): the
\* resulting note set (in order), the log.error calls and the search context
AncestorExpExecute(b, exp, inputNoteSet, ctx) ==
    IF exp.ancestorNoteId \notin b.notes
    THEN [b |-> b, res |-> <<>>, logged |-> 1, ctx |-> ctx]
    ELSE LET Depths(b1, subTreeNoteSet) ==
                 IF exp.ancestorDepthComparator.kind = "null"
                 THEN [b |-> b1, res |-> subTreeNoteSet, logged |-> 0, ctx |-> ctx]
                 ELSE [b |-> b1,
                       res |-> Filter(subTreeNoteSet,
                                  {n \in Range(subTreeNoteSet) :
                                      Compare(exp.ancestorDepthComparator,
                                          getDistanceToAncestor(b1, n, exp.ancestorNoteId, 0))}),
                       logged |-> 0, ctx |-> ctx]
             Subtree(t) == Depths(t.b, Intersection(t.notes, inputNoteSet))
         IN Subtree(getSubtree(b, exp.ancestorNoteId, TRUE, FALSE))

\* ------------------------------------------------------- query to results
\* A query is held as its sequence of words. Words that are part of the
\* structured language; every other word is a full-text term.
LabelTests == {"#color", "#none"}
StructuredWords == LabelTests \cup {"(", ")", "="}
LabelName(word) == IF word = "#color" THEN "color" ELSE "none"

RECURSIVE FulltextPrefix(_)
FulltextPrefix(words) ==
    IF words = <<>> \/ Head(words) \in StructuredWords THEN <<>>
    ELSE <<Head(words)>> \o FulltextPrefix(Tail(words))

\* lex(query): the words before the first structured word are full-text
\* tokens, the rest are expression tokens; it is not handed the search context
lex(query) ==
    LET Split(fulltextTokens) ==
            [fulltextTokens |-> fulltextTokens,
             expressionTokens |-> SubSeq(query, Len(fulltextTokens) + 1, Len(query))]
    IN Split(FulltextPrefix(query))

RECURSIVE ParenDepth(_, _)
\* -1 once a right parenthesis has no left one, else the count left open
ParenDepth(tokens, open) ==
    IF tokens = <<>> THEN open
    ELSE IF Head(tokens) = "(" THEN ParenDepth(Tail(tokens), open + 1)
    ELSE IF Head(tokens) = ")"
         THEN IF open = 0 THEN -1 ELSE ParenDepth(Tail(tokens), open - 1)
    ELSE ParenDepth(Tail(tokens), open)

\* handleParens(tokens): throws when a parenthesis has no partner; the groups
\* hold conjunctions only, so the grouped tokens are kept as their flat list
handleParens(tokens) ==
    IF ParenDepth(tokens, 0) # 0
    THEN [ok |-> FALSE, tokens |-> <<>>, message |-> "Did not find matching parenthesis."]
    ELSE [ok |-> TRUE, tokens |-> Filter(tokens, Range(tokens) \ {"(", ")"}), message |-> ""]

NoExpression == [isNull |-> TRUE, fulltextTokens |-> <<>>, labels |-> <<>>]

\* parse({fulltextTokens, expressionTokens, searchContext}): a token that is no
\* complete test is reported on the context and no expression is built; no
\* tokens at all build none either
parse(fulltextTokens, expressionTokens, ctx) ==
    IF \E i \in 1..Len(expressionTokens) : expressionTokens[i] \notin LabelTests
    THEN [exp |-> NoExpression, ctx |-> addError(ctx, "Misplaced or incomplete expression")]
    ELSE IF fulltextTokens = <<>> /\ expressionTokens = <<>>
    THEN [exp |-> NoExpression, ctx |-> ctx]
    ELSE [exp |-> [isNull |-> FALSE, fulltextTokens |-> fulltextTokens,
                   labels |-> [i \in 1..Len(expressionTokens) |->
                                  LabelName(expressionTokens[i])]],
          ctx |-> ctx]

\* search.parseQueryToExpression(query, searchContext)
parseQueryToExpression(query, ctx) ==
    LET Parse(lexed, structured) ==
            IF structured.ok
            THEN parse(lexed.fulltextTokens, structured.tokens, ctx)
            ELSE parse(lexed.fulltextTokens, <<>>, addError(ctx, structured.message))
        Lexed(lexed) == Parse(lexed, handleParens(lexed.expressionTokens))
    IN Lexed(lex(query))

\* utils.normalize on the note ids in use
normalize(word) ==
    CASE word = "A" -> "a" [] word = "B" -> "b" [] word = "C" -> "c"
      [] word = "S" -> "s" [] word = "T" -> "t" [] word = "U" -> "u" [] OTHER -> word

\* `${this.title} ` of the flat text: the title as it is in memory, a
\* ciphertext as the text it is
TitleWords(t) ==
    IF t.text = "" THEN {}
    ELSE {IF t.encrypted THEN "encrypted:" \o t.text ELSE normalize(t.text)}

\* BNote.getFlatText() as its set of words: the id, the type, the title and
\* one word per effective attribute (label values are empty here)
getFlatText(b, n) ==
    IF b.flatTextCache[n] # NullText THEN [b |-> b, res |-> b.flatTextCache[n]]
    ELSE LET Memoize(b1, text) == [b |-> [b1 EXCEPT !.flatTextCache[n] = text], res |-> text]
             Words(r) ==
                 Memoize(r.b, {normalize(n), normalize(b.noteType[n])}
                              \cup TitleWords(b.title[n])
                              \cup {(IF r.b.attrs[r.res[i]].type = "label" THEN "#" ELSE "~")
                                    \o r.b.attrs[r.res[i]].name : i \in 1..Len(r.res)})
         IN Words(getAttributes(b, n))

\* one note against the expression: every full-text token is in its flat text
\* and every tested label is among its effective attributes
ExpressionMatches(b, n, exp) ==
    LET Match(r) ==
            [b |-> r.b,
             res |-> /\ \A i \in 1..Len(exp.fulltextTokens) : exp.fulltextTokens[i] \in r.res
                     /\ \A i \in 1..Len(exp.labels) : ("#" \o exp.labels[i]) \in r.res]
    IN Match(getFlatText(b, n))

RECURSIVE ExpressionExecute(_, _, _)
\* expression.execute(allNoteSet, executionContext, searchContext)
ExpressionExecute(b, allNotes, exp) ==
    IF allNotes = <<>> THEN [b |-> b, res |-> <<>>]
    ELSE LET Rest(m, r) ==
                 [b |-> r.b, res |-> IF m THEN <<Head(allNotes)>> \o r.res ELSE r.res]
             First(m) == Rest(m.res, ExpressionExecute(m.b, Tail(allNotes), exp))
         IN First(ExpressionMatches(b, Head(allNotes), exp))

RECURSIVE SearchResultsMap(_, _)
\* noteSet.notes.map(note => ... note.getBestNotePath() ...): throws at the
\* first note without a note path
SearchResultsMap(b, matched) ==
    IF matched = <<>> THEN [b |-> b, res |-> {}, thrown |-> FALSE]
    ELSE LET Rest(r) == [r EXCEPT !.res = IF r.thrown THEN {} ELSE @ \cup {Head(matched)}]
             Path(p) == IF p.res = <<>> THEN [b |-> p.b, res |-> {}, thrown |-> TRUE]
                        ELSE Rest(SearchResultsMap(p.b, Tail(matched)))
         IN Path(getBestNotePath(b, Head(matched), "root"))

\* search.findResultsWithExpression(expression, searchContext): the noteIds of
\* the results (scoring and sorting only order them)
findResultsWithExpression(b, allNotes, exp) ==
    LET Map(r) == SearchResultsMap(r.b, r.res)
    IN Map(ExpressionExecute(b, allNotes, exp))

\* search.findResultsWithQuery(query, searchContext)
findResultsWithQuery(b, allNotes, query, ctx) ==
    LET Found(p, r) == [b |-> r.b, res |-> r.res, thrown |-> r.thrown, ctx |-> p.ctx]
        Parsed(p) ==
            IF p.exp.isNull THEN [b |-> b, res |-> {}, thrown |-> FALSE, ctx |-> p.ctx]
            ELSE Found(p, findResultsWithExpression(b, allNotes, p.exp))
    IN Parsed(parseQueryToExpression(query, ctx))

\* ------------------------------------------------------ order of results
\* the comparator of findResultsWithExpression: negative when a sorts before b;
\* notePathTitle holds the rank of the title in alphabetical order
CompareResults(a, b) ==
    IF a.score > b.score THEN -1
    ELSE IF a.score < b.score THEN 1
    ELSE IF a.pathLength = b.pathLength
         THEN (IF a.notePathTitle < b.notePathTitle THEN -1 ELSE 1)
    ELSE IF a.pathLength < b.pathLength THEN -1 ELSE 1

RECURSIVE InsertResult(_, _), SortResults(_)
\* Array.prototype.sort: x goes after every element it does not precede
InsertResult(sorted, x) ==
    IF sorted = <<>> THEN <<x>>
    ELSE IF CompareResults(x, Head(sorted)) < 0 THEN <<x>> \o sorted
    ELSE <<Head(sorted)>> \o InsertResult(Tail(sorted), x)

SortResults(s) ==
    IF s = <<>> THEN <<>>
    ELSE InsertResult(SortResults(SubSeq(s, 1, Len(s) - 1)), s[Len(s)])

\* if (!noteSet.sorted) searchResults.sort(...); return searchResults
orderResults(searchResults, sorted) ==
    IF sorted THEN searchResults ELSE SortResults(searchResults)

\* ------------------------------------------------- branches and deletion
\* BNote.isDeleted
noteIsDeleted(b, n) == n \notin b.notes \/ b.isBeingDeleted[n]

\* BNote.getStrongParentBranches()
getStrongParentBranches(b, n) ==
    Filter(b.parentBranches[n], {br \in Range(b.parentBranches[n]) : ~br.isWeak})

\* becca_loader branchDeleted(): detach the branch from both notes
branchDeleted(b, child, parent) ==
    IF ~\E i \in 1..Len(b.parentBranches[child]) : b.parentBranches[child][i].parentNoteId = parent
    THEN b
    ELSE LET b1 == [b EXCEPT !.parents[child] = Filter(@, Range(@) \ {parent}),
                             !.parentBranches[child] =
                                 Filter(@, {br \in Range(@) : br.parentNoteId # parent})]
             b2 == IF parent \in NoteIds
                   THEN [b1 EXCEPT !.children[parent] = Filter(@, Range(@) \ {child})]
                   ELSE b1
         IN invalidateSubTree(b2, child, <<>>)

RECURSIVE MarkAttributesLoop(_, _)
\* for (const attribute of list) attribute.markAsDeleted()
MarkAttributesLoop(b, as) ==
    IF as = <<>> THEN b
    ELSE MarkAttributesLoop(markAttributeAsDeleted(b, Head(as)), Tail(as))

RECURSIVE deleteBranch(_, _, _), DeleteChildBranchesLoop(_, _, _), DeleteWeakLoop(_, _, _)

DeleteWeakLoop(b, n, brs) ==
    IF brs = <<>> THEN b
    ELSE DeleteWeakLoop(branchDeleted([b EXCEPT !.saves = @ + 1], n, Head(brs).parentNoteId),
                        n, Tail(brs))

DeleteChildBranchesLoop(b, n, cs) ==
    IF cs = <<>> THEN b
    ELSE DeleteChildBranchesLoop(deleteBranch(b, Head(cs), n), n, Tail(cs))

\* BBranch.deleteBranch(): the branch goes; a note left without a strong
\* parent branch is soft-deleted with its subtree, attributes and relations
deleteBranch(b, child, parent) ==
    IF child = "root" THEN b
    ELSE LET Forget(b6) == [b6 EXCEPT !.notes = @ \ {child}, !.saves = @ + 1]
             Relations(b5) == Forget(MarkAttributesLoop(b5, b5.targetRelations[child]))
             Attributes(b4) == Relations(MarkAttributesLoop(b4, b4.ownedAttributes[child]))
             Children(b2) ==
                 Attributes([DeleteChildBranchesLoop(b2, child, b2.children[child])
                                EXCEPT !.isBeingDeleted[child] = TRUE])
             Detached(b1) ==
                 IF Len(getStrongParentBranches(b1, child)) > 0 THEN b1
                 ELSE Children(DeleteWeakLoop(b1, child, b1.parentBranches[child]))
         IN Detached(branchDeleted([b EXCEPT !.saves = @ + 1], child, parent))

RECURSIVE DeleteParentBranchesLoop(_, _, _)
\* for (const branch of this.getParentBranches()) branch.deleteBranch(...)
DeleteParentBranchesLoop(b, n, brs) ==
    IF brs = <<>> THEN b
    ELSE DeleteParentBranchesLoop(deleteBranch(b, n, Head(brs).parentNoteId), n, Tail(brs))

\* handlers.runAttachedRelations(note, relationName, note): the scripts that
\* the note's relations of that name point to are run once each; recorded
\* with the parent branches and the owned attributes the note has at that time
runAttachedRelations(b, n, relationName) ==
    LET Run(r) ==
            [r.b EXCEPT !.handlersRun =
                Append(@, [note |-> n, name |-> relationName,
                           targets |-> {r.b.attrs[r.res[i]].value : i \in
                                           {j \in 1..Len(r.res) :
                                               /\ r.b.attrs[r.res[j]].type = "relation"
                                               /\ r.b.attrs[r.res[j]].name = relationName
                                               /\ r.b.attrs[r.res[j]].value \in r.b.notes}},
                           parentBranches |-> r.b.parentBranches[n],
                           ownedAttributes |-> Range(r.b.ownedAttributes[n])
                                               \cap r.b.attributes])]
    IN Run(getAttributes(b, n))

\* a deleteNote that runs the handlers after the branches are deleted
deleteNoteHandlersLast(b, n) ==
    IF noteIsDeleted(b, n) THEN b
    ELSE runAttachedRelations(DeleteParentBranchesLoop(b, n, b.parentBranches[n]),
                              n, "runOnNoteDeletion")

\* BNote.deleteNote()
deleteNote(b, n) ==
    IF noteIsDeleted(b, n) THEN b
    ELSE LET Branches(b1) == DeleteParentBranchesLoop(b1, n, b1.parentBranches[n])
         IN Branches(runAttachedRelations(b, n, "runOnNoteDeletion"))

\* ------------------------------------------------------------ loading
\* the cache with no entity in it; ids are the note ids it can come to hold
EmptyBeccaOver(ids) ==
    [notes |-> {}, noteType |-> [n \in ids |-> ""],
     isBeingDeleted |-> [n \in ids |-> FALSE],
     parentBranches |-> [n \in ids |-> <<>>],
     parents |-> [n \in ids |-> <<>>],
     children |-> [n \in ids |-> <<>>],
     attrs |-> <<>>, attributes |-> {},
     ownedAttributes |-> [n \in ids |-> <<>>],
     targetRelations |-> [n \in ids |-> <<>>],
     attributeIndex |-> <<>>,
     attributeCache |-> [n \in ids |-> NullAttrs],
     inheritableAttributeCache |-> [n \in ids |-> NullAttrs],
     ancestorCache |-> [n \in ids |-> NullNotes],
     flatTextCache |-> [n \in ids |-> NullText],
     now |-> 0, saves |-> 0, stackOverflow |-> FALSE, handlersRun |-> <<>>,
     title |-> [n \in ids |-> NoTitle]]

EmptyBecca == EmptyBeccaOver(NoteIds)

\* new BNote(row) for a loaded note row
LoadNote(b, n, type) == [SkeletonNote(b, n) EXCEPT !.noteType[n] = type]

\* new BBranch(row) for a loaded branch row: wires child and parent
LoadBranch(b, child, parent, weak) ==
    LET b1 == [b EXCEPT !.parentBranches[child] =
                   Append(@, [parentNoteId |-> parent, isWeak |-> weak,
                              notePosition |-> 0, isExpanded |-> FALSE])]
    IN IF child = "root" \/ parent \notin b.notes THEN b1
       ELSE [b1 EXCEPT !.parents[child] = IF Includes(@, parent) THEN @ ELSE Append(@, parent),
                       !.children[parent] = IF Includes(@, child) THEN @ ELSE Append(@, child)]

\* new BAttribute(row) for a loaded attribute row (it carries its id)
LoadAttribute(b, n, type, name, value, isInheritable, position) ==
    BAttributeNew(b, [attributeId |-> Len(b.attrs) + 1, noteId |-> n, type |-> type,
                      name |-> name, value |-> value, isInheritable |-> isInheritable,
                      position |-> position, utcDateModified |-> 1]).b

RECURSIVE LoadNotes(_, _), LoadBranches(_, _), LoadAttributes(_, _)
LoadNotes(b, rows) ==
    IF rows = <<>> THEN b
    ELSE LoadNotes(LoadNote(b, Head(rows)[1], Head(rows)[2]), Tail(rows))

LoadBranches(b, rows) ==
    IF rows = <<>> THEN b
    ELSE LoadBranches(LoadBranch(b, Head(rows)[1], Head(rows)[2], Head(rows)[3]), Tail(rows))

LoadAttributes(b, rows) ==
    IF rows = <<>> THEN b
    ELSE LoadAttributes(LoadAttribute(b, Head(rows)[1], Head(rows)[2], Head(rows)[3],
                                      Head(rows)[4], Head(rows)[5], Head(rows)[6]), Tail(rows))

\* becca_loader.load(): notes, then branches, then attributes
Load(noteRows, branchRows, attributeRows) ==
    [LoadAttributes(LoadBranches(LoadNotes(EmptyBecca, noteRows), branchRows), attributeRows)
        EXCEPT !.now = 1]

\* ------------------------------------------------- transactional batches
\* a batch that keeps what it did to the cache when it throws
transactionalKeepsCache(b, r) == r

\* sql.transactional(func): r is what func did to the cache b; when func threw,
\* the cache (and the rows written) are those from before the transaction
transactional(b, r) ==
    IF r.ok THEN r ELSE [r EXCEPT !.b = [b EXCEPT !.now = r.b.now]]

\* noteService.createNewNote(params): the note and its branch, both saved
createNewNote(b, parentNoteId, noteId, type) ==
    [LoadBranch(LoadNote(b, noteId, type), noteId, parentNoteId, FALSE)
        EXCEPT !.saves = @ + 2]

\* ------------------------------------------------------- hidden subtree
LBTPL_BASE == "_lbTplBase"
LBTPL_BUILTIN_WIDGET == "_lbTplBuiltinWidget"
LBTPL_COMMAND == "_lbTplCommandLauncher"
LBTPL_NOTE_LAUNCHER == "_lbTplNoteLauncher"
LBTPL_SPACER == "_lbTplSpacer"

HiddenNoteIds == {"_hidden", "_lbTplRoot", LBTPL_BASE, LBTPL_BUILTIN_WIDGET, "_lbRoot",
                  "_lbAvailableLaunchers", "_lbBackInHistory"}

\* an item of the definition with the optional properties left undefined
Item(id, type, childIds) ==
    [id |-> id, title |-> id, type |-> type, icon |-> "", hasNotePosition |-> FALSE,
     notePosition |-> 0, hasIsExpanded |-> FALSE, isExpanded |-> FALSE, attributes |-> <<>>,
     command |-> "", builtinWidget |-> "", targetNoteId |-> "", children |-> childIds]

\* an attribute of the definition; isInheritable is undefined unless given
Attr(type, name, value) ==
    [type |-> type, name |-> name, value |-> value, isInheritable |-> FALSE]

\* HIDDEN_SUBTREE_DEFINITION, the launcher templates and one launcher of it;
\* children are held by id
HIDDEN_SUBTREE_DEFINITION ==
    [id \in HiddenNoteIds |->
       CASE id = "_hidden" ->
              [Item(id, "doc", <<"_lbTplRoot", "_lbRoot">>) EXCEPT
                  !.icon = "bx bx-chip", !.hasNotePosition = TRUE, !.notePosition = 999999999,
                  !.attributes = << [Attr("label", "excludeFromNoteMap", "") EXCEPT
                                        !.isInheritable = TRUE],
                                    Attr("label", "docName", "hidden") >>]
         [] id = "_lbTplRoot" -> Item(id, "doc", <<LBTPL_BASE, LBTPL_BUILTIN_WIDGET>>)
         [] id = LBTPL_BASE -> Item(id, "doc", <<>>)
         [] id = LBTPL_BUILTIN_WIDGET ->
              [Item(id, "doc", <<>>) EXCEPT
                  !.attributes = << Attr("relation", "template", LBTPL_BASE),
                                    Attr("label", "launcherType", "builtinWidget") >>]
         [] id = "_lbRoot" ->
              [Item(id, "doc", <<"_lbAvailableLaunchers">>) EXCEPT
                  !.icon = "bx-sidebar", !.hasIsExpanded = TRUE, !.isExpanded = TRUE,
                  !.attributes = << Attr("label", "docName", "launchbar_intro") >>]
         [] id = "_lbAvailableLaunchers" ->
              [Item(id, "doc", <<"_lbBackInHistory">>) EXCEPT
                  !.icon = "bx-hide", !.hasIsExpanded = TRUE, !.isExpanded = TRUE,
                  !.attributes = << Attr("label", "docName", "launchbar_intro") >>]
         [] OTHER ->
              [Item(id, "launcher", <<>>) EXCEPT
                  !.icon = "bx bxs-left-arrow-square", !.builtinWidget = "backInHistoryButton",
                  !.attributes = << Attr("label", "docName", "launchbar_history_navigation") >>]]

\* s.charAt(0) of a type or of a note id
CharAt0(s) ==
    CASE s = "label" -> "l" [] s = "relation" -> "r" [] s \in HiddenNoteIds -> "_"
      [] OTHER -> "?"

\* the attribute ids the strings note.noteId + "_" + attr.type.charAt(0) + attr.name
\* can come to; an id string is held in the cache as 100 + its place in this list
AttributeIdStrings ==
    << "_hidden_lexcludeFromNoteMap", "_hidden_ldocName", "_hidden_liconClass",
       "_lbTplBuiltinWidget_rtemplate", "_lbTplBuiltinWidget_llauncherType",
       "_lbRoot_ldocName", "_lbRoot_liconClass",
       "_lbAvailableLaunchers_ldocName", "_lbAvailableLaunchers_liconClass",
       "_lbBackInHistory_ldocName", "_lbBackInHistory_liconClass",
       "_lbBackInHistory_rtemplate", "_lbBackInHistory_lbuiltinWidget" >>

AttributeIdOf(attrId) ==
    100 + (CHOOSE i \in 1..Len(AttributeIdStrings) : AttributeIdStrings[i] = attrId)

\* const attrs = [...(item.attributes || [])] with the icon and launcher
\* attributes pushed; ok = FALSE when no action is defined for a launcher
ItemAttrs(item) ==
    LET icon == IF item.icon # "" THEN << Attr("label", "iconClass", "bx " \o item.icon) >>
                ELSE <<>>
        launcher ==
            IF item.type # "launcher" THEN <<>>
            ELSE IF item.command # ""
                 THEN << Attr("relation", "template", LBTPL_COMMAND),
                         Attr("label", "command", item.command) >>
            ELSE IF item.builtinWidget # ""
                 THEN (IF item.builtinWidget = "spacer"
                       THEN << Attr("relation", "template", LBTPL_SPACER),
                               Attr("label", "baseSize", ""), Attr("label", "growthFactor", "") >>
                       ELSE << Attr("relation", "template", LBTPL_BUILTIN_WIDGET) >>)
                      \o << Attr("label", "builtinWidget", item.builtinWidget) >>
            ELSE IF item.targetNoteId # ""
                 THEN << Attr("relation", "template", LBTPL_NOTE_LAUNCHER),
                         Attr("relation", "target", item.targetNoteId) >>
            ELSE <<>>
    IN [attrs |-> item.attributes \o icon \o launcher,
        ok |-> ~(item.type = "launcher" /\ item.command = "" /\ item.builtinWidget = ""
                 /\ item.targetNoteId = "")]

\* an attribute check that finds nothing
hasAttributeIdNever(b, n, attrId) == [b |-> b, res |-> FALSE]

\* note.getAttributes().find(attr => attr.attributeId === attrId)
hasAttributeId(b, n, attrId) ==
    LET Find(r) == [b |-> r.b,
                    res |-> \E i \in 1..Len(r.res) : r.b.attrs[r.res[i]].attributeId = attrId]
    IN Find(getAttributes(b, n))

RECURSIVE HiddenAttrsLoop(_, _, _)
\* for (const attr of attrs): create and save the ones the note does not have
HiddenAttrsLoop(r, n, as) ==
    IF as = <<>> \/ ~r.ok THEN r
    ELSE LET attrId == AttributeIdOf(n \o "_" \o CharAt0(Head(as).type) \o Head(as).name)
             Create(c) == saveAttribute(c.b, c.h)
             Found(f) ==
                 IF f.res THEN [b |-> f.b, ok |-> TRUE]
                 ELSE Create(BAttributeNew(f.b, [attributeId |-> attrId, noteId |-> n,
                                                 type |-> Head(as).type, name |-> Head(as).name,
                                                 value |-> Head(as).value, isInheritable |-> FALSE,
                                                 position |-> NoPosition,
                                                 utcDateModified |-> NoDate]))
         IN HiddenAttrsLoop(Found(hasAttributeId(r.b, n, attrId)), n, Tail(as))

\* note.getParentBranches().find(branch => branch.parentNoteId === parentNoteId):
\* its place in the list, 0 when there is none
FindParentBranch(b, n, parentNoteId) ==
    LET is == {i \in 1..Len(b.parentBranches[n]) :
                  b.parentBranches[n][i].parentNoteId = parentNoteId}
    IN IF is = {} THEN 0 ELSE CHOOSE i \in is : \A j \in is : i <= j

\* the note type and the branch brought to what the item says, each change saved
EnforceItem(b, item, i) ==
    LET b1 == IF b.noteType[item.id] # item.type
              THEN [b EXCEPT !.noteType[item.id] = item.type, !.saves = @ + 1]
              ELSE b
        b2 == IF i # 0 /\ item.hasNotePosition
                 /\ b1.parentBranches[item.id][i].notePosition # item.notePosition
              THEN [b1 EXCEPT !.parentBranches[item.id][i].notePosition = item.notePosition,
                              !.saves = @ + 1]
              ELSE b1
    IN IF i # 0 /\ item.hasIsExpanded
          /\ b2.parentBranches[item.id][i].isExpanded # item.isExpanded
       THEN [b2 EXCEPT !.parentBranches[item.id][i].isExpanded = item.isExpanded,
                       !.saves = @ + 1]
       ELSE b2

RECURSIVE checkHiddenSubtreeRecursively(_, _, _), HiddenChildrenLoop(_, _, _)
\* for (const child of item.children || []) checkHiddenSubtreeRecursively(item.id, child)
HiddenChildrenLoop(r, parentNoteId, cs) ==
    IF cs = <<>> \/ ~r.ok THEN r
    ELSE HiddenChildrenLoop(checkHiddenSubtreeRecursively(r.b, parentNoteId, Head(cs)),
                            parentNoteId, Tail(cs))

\* hidden_subtree.checkHiddenSubtreeRecursively(parentNoteId, item): ok = FALSE
\* when it throws
checkHiddenSubtreeRecursively(b, parentNoteId, id) ==
    LET item == HIDDEN_SUBTREE_DEFINITION[id]
        as == ItemAttrs(item)
        Attrs(b1) == HiddenAttrsLoop([b |-> b1, ok |-> TRUE], id, as.attrs)
        Note(b1) == Attrs(EnforceItem(b1, item, FindParentBranch(b1, id, parentNoteId)))
    IN IF item.id = "" \/ item.type = "" \/ item.title = "" \/ CharAt0(item.id) # "_"
       THEN [b |-> b, ok |-> FALSE]
       ELSE IF ~as.ok
       THEN [b |-> IF id \in b.notes THEN b ELSE createNewNote(b, parentNoteId, id, item.type),
             ok |-> FALSE]
       ELSE HiddenChildrenLoop(
                Note(IF id \in b.notes THEN b ELSE createNewNote(b, parentNoteId, id, item.type)),
                id, item.children)

\* hidden_subtree.checkHiddenSubtree(force); isDbUpToDate is what the migration
\* service answers
checkHiddenSubtree(b, force, isDbUpToDate) ==
    IF ~force /\ ~isDbUpToDate THEN [b |-> b, ok |-> TRUE]
    ELSE checkHiddenSubtreeRecursively(b, "root", "_hidden")

RECURSIVE CreateAttributesLoop(_, _, _)
\* for (const attr of extraOptions.attributes || []) attributeService.createAttribute(...)
CreateAttributesLoop(r, noteId, attributeRows) ==
    IF attributeRows = <<>> \/ ~r.ok THEN r
    ELSE LET Created(c) == [b |-> c.b, ok |-> c.ok]
         IN CreateAttributesLoop(
                Created(addAttribute(r.b, noteId, Head(attributeRows).type, Head(attributeRows).name,
                                     Head(attributeRows).value, Head(attributeRows).isInheritable,
                                     NoPosition)),
                noteId, Tail(attributeRows))

\* the function BackendScriptApi.createNote hands to sql.transactional
CreateNoteBatch(b, parentNoteId, noteId, attributeRows) ==
    CreateAttributesLoop([b |-> createNewNote(b, parentNoteId, noteId, "text"), ok |-> TRUE],
                         noteId, attributeRows)

\* BackendScriptApi.createNote(parentNoteId, title, content, {attributeRows}); noteId
\* is the id the new note is given; dirty is the cache as the batch left it
createNote(b, parentNoteId, noteId, attributeRows) ==
    LET Run(r) == [b |-> transactional(b, r).b, ok |-> r.ok, dirty |-> r.b]
    IN Run(CreateNoteBatch(b, parentNoteId, noteId, attributeRows))

InitBecca(b) ==
    /\ notes = b.notes
    /\ noteType = b.noteType
    /\ isBeingDeleted = b.isBeingDeleted
    /\ parentBranches = b.parentBranches
    /\ parents = b.parents
    /\ children = b.children
    /\ attrs = b.attrs
    /\ attributes = b.attributes
    /\ ownedAttributes = b.ownedAttributes
    /\ targetRelations = b.targetRelations
    /\ attributeIndex = b.attributeIndex
    /\ attributeCache = b.attributeCache
    /\ inheritableAttributeCache = b.inheritableAttributeCache
    /\ ancestorCache = b.ancestorCache
    /\ flatTextCache = b.flatTextCache
    /\ now = b.now
    /\ saves = b.saves
    /\ stackOverflow = b.stackOverflow
    /\ handlersRun = b.handlersRun

\* ------------------------------------------------------ protected session
NullKey == <<"null">>       \* dataKey = null; a key is the array of its bytes
ProtectedTitle == [text |-> "[protected]", encrypted |-> FALSE]

\* protected_session.isProtectedSessionAvailable(): !!dataKey
isProtectedSessionAvailable(key) == key # NullKey

\* protectedSessionService.encrypt(plainText) under the data key
encryptString(plain) == [plain EXCEPT !.encrypted = TRUE]

\* protectedSessionService.decryptString(cipherText) does not throw
CanDecrypt(key, cipherText) == key # <<>> /\ cipherText.encrypted

\* protectedSessionService.decryptString(cipherText)
decryptString(key, cipherText) == [cipherText EXCEPT !.encrypted = FALSE]

\* the protected note record: its title and flags
NoteOf(n) == [title |-> title[n], isProtected |-> isProtected[n], isDecrypted |-> isDecrypted[n],
              flatTextCache |-> flatTextCache[n]]

\* BNote.decrypt()
decrypt(key, note) ==
    IF note.isProtected /\ ~note.isDecrypted /\ isProtectedSessionAvailable(key)
    THEN IF CanDecrypt(key, note.title)
         THEN [note EXCEPT !.title = decryptString(key, note.title),
                           !.flatTextCache = NullText, !.isDecrypted = TRUE]
         ELSE note
    ELSE note

\* BNote.update(row): the fields of the row, isDecrypted, then decrypt()
update(key, row) ==
    LET Decrypted(note) == [note EXCEPT !.flatTextCache = NullText]
    IN Decrypted(decrypt(key, [title |-> row.title, isProtected |-> row.isProtected,
                               isDecrypted |-> ~row.isProtected,
                               flatTextCache |-> row.flatTextCache]))

\* a note whose content is available whatever the session
isContentAvailableAlways(key, note) == TRUE

\* BNote.isContentAvailable() of a note that has a noteId
isContentAvailable(key, note) == ~note.isProtected \/ isProtectedSessionAvailable(key)

\* BNote.getTitleOrProtected()
getTitleOrProtected(key, note) ==
    IF isContentAvailable(key, note) THEN note.title ELSE ProtectedTitle

InitSession ==
    /\ dataKey = NullKey
    /\ title = [n \in NoteIds |-> NoTitle]
    /\ isProtected = [n \in NoteIds |-> FALSE]
    /\ isDecrypted = [n \in NoteIds |-> TRUE]

\* ------------------------------------------------------------ sync mutex
\* an acquire that does not look at the lock
CanAcquireHeld(isLocked, queue) == queue # <<>>

\* the mutex can be acquired: it is free and someone waits for it
CanAcquire(isLocked, queue) == ~isLocked /\ queue # <<>>

InitMutex ==
    /\ locked = FALSE
    /\ waiters = <<>>
    /\ running = {}

\* ------------------------------------------------------ paged sync updates
\* the pages of the requests the sync clients send: the text of a body cut in
\* pieces, or the body itself when there is one page
RequestPages == [r1 |-> <<"a", "b">>, r2 |-> <<"c", "d", "e">>, r3 |-> <<"f">>]
RequestIds == DOMAIN RequestPages

\* Date.now() in milliseconds; the clock starts a minute after the epoch
DateNow(minutes) == (minutes + 1) * 60 * 1000

\* JSON.parse(payload): the body a complete text stands for; any other text
\* is a syntax error
JsonParse(payload) ==
    IF payload \in {"ab", "cde", "f"}
    THEN [ok |-> TRUE, body |-> [entities |-> payload]]
    ELSE [ok |-> FALSE, body |-> [entities |-> ""]]

InitSync ==
    /\ partialRequests = <<>>
    /\ updates = <<>>
    /\ pagesSent = [r \in RequestIds |-> [next |-> 0, startedAt |-> 0, rejected |-> FALSE, rejectedAt |-> 0]]
    /\ clock = 0
    /\ lastProtectedSessionOperationDate = NoDate
    /\ sessionStartedAt = NoDate

\* an update that parses and applies what it has after every page
updateEveryPage(requests, applied, requestId, pageCount, pageIndex, body, minutes) ==
    LET payload == (IF requestId \in DOMAIN requests THEN requests[requestId].payload ELSE "")
                   \o body
    IN [partialRequests |-> requests @@ (requestId :> [createdAt |-> DateNow(minutes),
                                                      payload |-> payload]),
        updates |-> Append(applied, payload), thrown |-> FALSE]

\* update(req) of routes/api/sync.js; thrown when it throws
syncUpdate(requests, applied, requestId, pageCount, pageIndex, body, minutes) ==
    IF pageCount # 1
    THEN LET started == IF pageIndex = 0
                        THEN [r \in DOMAIN requests \cup {requestId} |->
                                 IF r = requestId
                                 THEN [createdAt |-> DateNow(minutes), payload |-> ""]
                                 ELSE requests[r]]
                        ELSE requests
             Receive(reqs) ==
                 IF pageIndex # pageCount - 1
                 THEN [partialRequests |-> reqs, updates |-> applied, thrown |-> FALSE]
                 ELSE LET Apply(parsed) ==
                              IF ~parsed.ok
                              THEN [partialRequests |-> reqs, updates |-> applied,
                                    thrown |-> TRUE]
                              ELSE [partialRequests |->
                                        [r \in DOMAIN reqs \ {requestId} |-> reqs[r]],
                                    updates |-> Append(applied, parsed.body.entities),
                                    thrown |-> FALSE]
                      IN Apply(JsonParse(reqs[requestId].payload))
         IN IF requestId \notin DOMAIN started
            THEN [partialRequests |-> started, updates |-> applied, thrown |-> TRUE]
            ELSE Receive([started EXCEPT ![requestId].payload = @ \o body])
    ELSE [partialRequests |-> requests, updates |-> Append(applied, body), thrown |-> FALSE]

\* the setInterval callback of sync.js: unfinished requests older than 20 minutes
cleanUpPartialRequests(requests, minutes) ==
    [r \in {k \in DOMAIN requests :
                ~(DateNow(minutes) - requests[k].createdAt > 20 * 60 * 1000)} |-> requests[r]]

InitFrom(b) ==
    /\ InitBecca(b)
    /\ searchContext = SearchContextNew
    /\ pending = {}
    /\ InitSession
    /\ InitMutex
    /\ InitSync

NoOp == [op |-> "init", step |-> 0, note |-> "", type |-> "", name |-> "", value |-> "",
         isInheritable |-> FALSE, ok |-> TRUE, h |-> 0, res |-> <<>>, arg |-> "",
         cached |-> {}, allOk |-> TRUE, input |-> {}, logged |-> 0, thrown |-> FALSE,
         sorted |-> FALSE, position |-> NoPosition, maxOwned |-> 0]

\* the notes whose effective attributes are memoized
Cached == {n \in notes : attributeCache[n] # NullAttrs}

\* ------------------------------------------------- the cache under mutation
BaseNotes == << <<"root", "text">>, <<"_hidden", "text">>, <<"A", "text">>,
                <<"B", "text">>, <<"S", "search">> >>
BaseBranches == << <<"root", "none", FALSE>>, <<"_hidden", "root", FALSE>>,
                   <<"A", "root", FALSE>>, <<"S", "root", FALSE>>, <<"B", "A", FALSE>> >>
ExtraBranches == { <<>>, << <<"B", "root", FALSE>> >>, << <<"B", "S", TRUE>> >> }
InitialAttributes ==
    { <<>>,
      << <<"B", "label", "archived", "w", FALSE, 10>> >>,
      << <<"B", "relation", "template", "S", FALSE, 10>>,
         <<"S", "label", "archived", "", FALSE, 10>>,
         <<"A", "label", "archived", "", FALSE, 10>> >>,
      << <<"B", "relation", "runOnNoteDeletion", "S", FALSE, 10>> >> }

Init ==
    /\ \E extra \in ExtraBranches, as \in InitialAttributes :
          InitFrom(Load(BaseNotes, BaseBranches \o extra, as))
    /\ last = NoOp

AddInputs ==
    { [note |-> "root", type |-> "label", name |-> "archived", value |-> "", isInheritable |-> TRUE],
      [note |-> "A", type |-> "label", name |-> "archived", value |-> "", isInheritable |-> TRUE],
      [note |-> "A", type |-> "relation", name |-> "template", value |-> "X", isInheritable |-> FALSE],
      [note |-> "B", type |-> "label", name |-> "archived", value |-> "v", isInheritable |-> FALSE],
      [note |-> "B", type |-> "label", name |-> "#archived", value |-> "", isInheritable |-> FALSE],
      [note |-> "B", type |-> "relation", name |-> "template", value |-> "A", isInheritable |-> FALSE],
      [note |-> "A", type |-> "note", name |-> "color", value |-> "w", isInheritable |-> FALSE],
      [note |-> "A", type |-> "label", name |-> " ", value |-> "w", isInheritable |-> FALSE] }

SetInputs ==
    { [note |-> "A", type |-> "label", name |-> "archived", value |-> ""],
      [note |-> "B", type |-> "label", name |-> "archived", value |-> "v"],
      [note |-> "B", type |-> "label", name |-> "#archived", value |-> ""],
      [note |-> "B", type |-> "relation", name |-> "template", value |-> "A"],
      [note |-> "B", type |-> "relation", name |-> "template", value |-> "X"],
      [note |-> "B", type |-> "note", name |-> "archived", value |-> "w"],
      [note |-> "B", type |-> "label", name |-> "", value |-> "w"] }

NewNoteId == "C"
CreateInputs ==
    { << [type |-> "label", name |-> "color", value |-> "w", isInheritable |-> FALSE] >>,
      << [type |-> "label", name |-> "archived", value |-> "", isInheritable |-> TRUE],
         [type |-> "relation", name |-> "template", value |-> "X", isInheritable |-> FALSE] >>,
      << [type |-> "relation", name |-> "template", value |-> "A", isInheritable |-> FALSE],
         [type |-> "note", name |-> "color", value |-> "w", isInheritable |-> FALSE] >> }

Mutators == {"A", "B"}

Op(name, n) ==
    [NoOp EXCEPT !.op = name, !.step = last.step + 1, !.note = n, !.allOk = last.allOk]

\* note.getAttributes()
GetAttributes(n) ==
    /\ n \in notes
    /\ attributeCache[n] = NullAttrs
    /\ SetBecca(getAttributes(Becca, n).b)
    /\ UNCHANGED outside
    /\ UNCHANGED last

\* note.addAttribute(type, name, value, isInheritable)
AddAttribute(in) ==
    /\ in.note \in notes
    /\ last.step < MaxOps
    /\ LET Return(r) ==
               /\ SetBecca(r.b)
               /\ UNCHANGED outside
               /\ last' = [Op("addAttribute", in.note) EXCEPT
                              !.type = in.type, !.name = in.name, !.value = in.value,
                              !.isInheritable = in.isInheritable, !.ok = r.ok, !.h = r.h,
                              !.cached = Cached, !.allOk = last.allOk /\ r.ok]
       IN Return(addAttribute(Becca, in.note, in.type, in.name, in.value,
                              in.isInheritable, NoPosition))

\* note.setAttribute(type, name, value)
SetAttribute(in) ==
    /\ in.note \in notes
    /\ last.step < MaxOps
    /\ LET Return(r) ==
               /\ SetBecca(r.b)
               /\ UNCHANGED outside
               /\ last' = [Op("setAttribute", in.note) EXCEPT
                              !.type = in.type, !.name = in.name, !.value = in.value,
                              !.ok = r.ok, !.h = r.h, !.allOk = last.allOk /\ r.ok]
       IN Return(setAttribute(Becca, in.note, in.type, in.name, in.value))

\* note.removeAttribute(type, name, value) for an attribute the note owns
RemoveAttribute(n, h) ==
    /\ n \in notes
    /\ last.step < MaxOps
    /\ h \in Range(ownedAttributes[n])
    /\ SetBecca(removeAttribute(Becca, n, attrs[h].type, attrs[h].name, attrs[h].value))
    /\ UNCHANGED outside
    /\ last' = [Op("removeAttribute", n) EXCEPT
                   !.type = attrs[h].type, !.name = attrs[h].name,
                   !.value = attrs[h].value, !.h = h]

\* branch.deleteBranch() for the branch of child under parent
DeleteBranch(child, parent) ==
    /\ child \in notes /\ child # "root"
    /\ last.step < MaxOps
    /\ \E i \in 1..Len(parentBranches[child]) : parentBranches[child][i].parentNoteId = parent
    /\ SetBecca(deleteBranch(Becca, child, parent))
    /\ UNCHANGED outside
    /\ last' = [Op("deleteBranch", child) EXCEPT !.arg = parent]

\* note.deleteNote()
DeleteNote(n) ==
    /\ n # "root"
    /\ last.step < MaxOps
    /\ SetBecca(deleteNote(Becca, n))
    /\ UNCHANGED outside
    /\ last' = Op("deleteNote", n)

\* api.createNote(parentNoteId, title, content, {attributes})
CreateNote(parentNoteId, attributeRows) ==
    /\ parentNoteId \in notes
    /\ NewNoteId \notin notes
    /\ last.step < MaxOps
    /\ LET Return(r) ==
               /\ SetBecca(r.b)
               /\ UNCHANGED outside
               /\ last' = [Op("createNote", NewNoteId) EXCEPT
                              !.arg = parentNoteId, !.ok = r.ok,
                              !.res = r.dirty.ownedAttributes[NewNoteId],
                              !.cached = Cached, !.allOk = last.allOk /\ r.ok]
       IN Return(createNote(Becca, parentNoteId, NewNoteId, attributeRows))

Next ==
    \/ \E attributeRows \in CreateInputs : CreateNote("A", attributeRows)
    \/ \E n \in Mutators : GetAttributes(n)
    \/ \E in \in AddInputs : AddAttribute(in)
    \/ \E in \in SetInputs : SetAttribute(in)
    \/ \E n \in Mutators, h \in 1..Len(attrs) : RemoveAttribute(n, h)
    \/ \E c \in Mutators, p \in NoteIds : DeleteBranch(c, p)
    \/ \E n \in Mutators : DeleteNote(n)

Spec == Init /\ [][Next]_vars

\* ------------------------------------------- reads over cyclic note graphs
\* Any parent links and template/inherit relations between A and B, cycles
\* and self-references included.
CycNotes == << <<"root", "text">>, <<"A", "text">>, <<"B", "text">> >>
CycOrder == <<"root", "A", "B">>
NoTarget == "none"

BranchRows(child, ps) ==
    LET order == Filter(CycOrder, ps)
    IN [i \in 1..Len(order) |-> <<child, order[i], FALSE>>]

RelationRows(n, name, target) ==
    IF target = NoTarget THEN <<>> ELSE << <<n, "relation", name, target, FALSE, 20>> >>

InitCyc ==
    /\ \E pA \in SUBSET {"root", "A", "B"}, pB \in SUBSET {"root", "A", "B"},
          tA \in {NoTarget, "A", "B"}, tB \in {NoTarget, "A", "B"}, inh \in BOOLEAN :
          InitFrom(Load(CycNotes,
                        << <<"root", "none", FALSE>> >> \o BranchRows("A", pA) \o BranchRows("B", pB),
                        << <<"A", "label", "archived", "", inh, 10>>,
                           <<"B", "label", "color", "w", TRUE, 10>> >>
                           \o RelationRows("A", "template", tA) \o RelationRows("B", "inherit", tB)))
    /\ last = NoOp

CycReaders == {"root", "A", "B"}

NextCyc == \E n \in CycReaders : GetAttributes(n)

SpecCyc == InitCyc /\ [][NextCyc]_vars

\* -------------------------------------------- reads over acyclic note graphs
\* Every placement of A, S and B below root and _hidden without a cycle; S is
\* a search note; one archived label somewhere, inheritable or not.
DagNotes == << <<"root", "text">>, <<"_hidden", "text">>, <<"A", "text">>,
               <<"S", "search">>, <<"B", "text">> >>
DagOrder == <<"root", "_hidden", "A", "S", "B">>

DagBranchRows(child, ps) ==
    LET order == Filter(DagOrder, ps)
    IN [i \in 1..Len(order) |-> <<child, order[i], FALSE>>]

ArchivedRows(n, inh) ==
    IF n = NoTarget THEN <<>> ELSE << <<n, "label", "archived", "", inh, 10>> >>

ArchivedChoices == { <<NoTarget, FALSE>>, <<"A", TRUE>>, <<"A", FALSE>>, <<"S", FALSE>> }

InitDag ==
    /\ \E pA \in (SUBSET {"root", "_hidden"}) \ {{}},
          pS \in {{"root"}, {"A"}},
          pB \in (SUBSET {"root", "_hidden", "A", "S"}) \ {{}},
          arch \in ArchivedChoices :
          InitFrom(Load(DagNotes,
                        << <<"root", "none", FALSE>>, <<"_hidden", "root", FALSE>> >>
                           \o DagBranchRows("A", pA) \o DagBranchRows("S", pS)
                           \o DagBranchRows("B", pB),
                        ArchivedRows(arch[1], arch[2])))
    /\ last = NoOp

Hoistable == {"root", "A", "_hidden"}
PathReaders == {"A", "B"}
AncestorReaders == {"A", "S", "B"}

\* note.getAncestors()
GetAncestors(n) ==
    /\ n \in notes
    /\ ancestorCache[n] = NullNotes
    /\ SetBecca(getAncestors(Becca, n).b)
    /\ UNCHANGED outside
    /\ UNCHANGED last

\* note.getAllNotePaths()
GetAllNotePaths(n) ==
    /\ n \in notes
    /\ last' = [NoOp EXCEPT !.op = "getAllNotePaths", !.note = n,
                            !.res = getAllNotePaths(Becca, n, 0)]
    /\ UNCHANGED <<beccaVars, outside>>

\* note.getBestNotePath(hoistedNoteId)
GetBestNotePath(n, hoistedNoteId) ==
    /\ n \in notes
    /\ LET Return(r) ==
               /\ SetBecca(r.b)
               /\ UNCHANGED outside
               /\ last' = [NoOp EXCEPT !.op = "getBestNotePath", !.note = n,
                                       !.arg = hoistedNoteId, !.res = r.res]
       IN Return(getBestNotePath(Becca, n, hoistedNoteId))

NextDag ==
    \/ \E n \in AncestorReaders : GetAncestors(n)
    \/ \E n \in PathReaders : GetAllNotePaths(n)
    \/ \E n \in PathReaders, hoistedNoteId \in Hoistable : GetBestNotePath(n, hoistedNoteId)

SpecDag == InitDag /\ [][NextDag]_vars

\* ------------------------------------- archived and hidden note paths
\* The graphs of the reads above, and those where A or B has no parent at all;
\* one call of a read or of sortParents on each.
PathNotes == {"root", "_hidden", "A", "S", "B"}

InitPaths ==
    /\ \E pA \in SUBSET {"root", "_hidden"},
          pS \in {{"root"}, {"A"}},
          pB \in SUBSET {"root", "_hidden", "A", "S"},
          arch \in ArchivedChoices :
          InitFrom(Load(DagNotes,
                        << <<"root", "none", FALSE>>, <<"_hidden", "root", FALSE>> >>
                           \o DagBranchRows("A", pA) \o DagBranchRows("S", pS)
                           \o DagBranchRows("B", pB),
                        ArchivedRows(arch[1], arch[2])))
    /\ last = NoOp

\* note.areAllNotePathsArchived()
AreAllNotePathsArchived(n) ==
    /\ n \in notes
    /\ last.op = "init"
    /\ LET Return(r) ==
               /\ SetBecca(r.b)
               /\ UNCHANGED outside
               /\ last' = [NoOp EXCEPT !.op = "areAllNotePathsArchived", !.note = n,
                                       !.ok = r.res, !.thrown = r.thrown]
       IN Return(areAllNotePathsArchived(Becca, n))

\* note.isHiddenCompletely()
IsHiddenCompletely(n) ==
    /\ n \in notes
    /\ last.op = "init"
    /\ last' = [NoOp EXCEPT !.op = "isHiddenCompletely", !.note = n,
                            !.ok = isHiddenCompletely(Becca, n)]
    /\ UNCHANGED <<beccaVars, outside>>

\* note.sortParents()
SortParents(n, order) ==
    /\ n \in notes
    /\ last.op = "init"
    /\ SetBecca(sortParents(Becca, n, order))
    /\ UNCHANGED outside
    /\ last' = [NoOp EXCEPT !.op = "sortParents", !.note = n]

NextPaths ==
    \/ \E n \in PathNotes : AreAllNotePathsArchived(n)
    \/ \E n \in PathNotes : IsHiddenCompletely(n)
    \/ \E n \in PathNotes : \E order \in Orders(Len(parentBranches[n])) :
           SortParents(n, order)

SpecPaths == InitPaths /\ [][NextPaths]_vars

\* ------------------------------------------------- pages of sync requests
\* Three sync clients send the pages of their requests, each in index order,
\* in any interleaving, while time passes and the clean-up timer fires.
MaxClock == 33
Passing == {10, 11}

InitPages ==
    /\ InitFrom(Load(<< <<"root", "text">> >>, << <<"root", "none", FALSE>> >>, <<>>))
    /\ last = NoOp

\* the client of requestId sends its next page: POST /api/sync/update
SendPage(requestId) ==
    /\ pagesSent[requestId].next < Len(RequestPages[requestId])
    /\ LET pageIndex == pagesSent[requestId].next
           pageCount == Len(RequestPages[requestId])
           Return(r) ==
               /\ partialRequests' = r.partialRequests
               /\ updates' = r.updates
               /\ pagesSent' = [pagesSent EXCEPT
                      ![requestId] = [next |-> IF r.thrown THEN pageCount ELSE pageIndex + 1,
                                      startedAt |-> IF pageIndex = 0 THEN clock ELSE @.startedAt,
                                      rejected |-> r.thrown,
                                      rejectedAt |-> IF r.thrown THEN clock ELSE 0]]
               /\ last' = [NoOp EXCEPT !.op = "update", !.arg = requestId, !.h = pageIndex,
                                       !.thrown = r.thrown]
       IN Return(syncUpdate(partialRequests, updates, requestId, pageCount, pageIndex,
                            RequestPages[requestId][pageIndex + 1], clock))
    /\ UNCHANGED <<clock, beccaVars, outsideSync>>

\* the timer of sync.js fires
CleanUpPartialRequests ==
    /\ partialRequests' = cleanUpPartialRequests(partialRequests, clock)
    /\ last' = [NoOp EXCEPT !.op = "cleanUp"]
    /\ UNCHANGED <<updates, pagesSent, clock, beccaVars, outsideSync>>

\* time passes
Tick(minutes) ==
    /\ clock + minutes <= MaxClock
    /\ clock' = clock + minutes
    /\ last' = [NoOp EXCEPT !.op = "tick"]
    /\ UNCHANGED <<partialRequests, updates, pagesSent, beccaVars, outsideSync>>

NextPages ==
    \/ \E requestId \in RequestIds : SendPage(requestId)
    \/ CleanUpPartialRequests
    \/ \E minutes \in Passing : Tick(minutes)

SpecPages == InitPages /\ [][NextPages]_vars

\* ------------------------------------------- distances in acyclic graphs
DistanceTargets == {"root", "_hidden", "A", "S", "B", "X"}

\* note.getDistanceToAncestor(ancestorNoteId)
GetDistanceToAncestor(n, ancestorNoteId) ==
    /\ n \in notes
    /\ last.op = "init"
    /\ last' = [NoOp EXCEPT !.op = "getDistanceToAncestor", !.note = n, !.arg = ancestorNoteId,
                            !.logged = getDistanceToAncestor(Becca, n, ancestorNoteId, 0)]
    /\ UNCHANGED <<beccaVars, outside>>

NextDistance ==
    \E n \in {"root", "_hidden", "A", "S", "B"}, ancestorNoteId \in DistanceTargets :
        GetDistanceToAncestor(n, ancestorNoteId)

SpecDistance == InitDag /\ [][NextDistance]_vars

\* ---------------------------------------------- subtrees of cloned notes
\* root above _hidden, A and B, where A and B may also be each other's parent;
\* the search note S lies below A or B and B may be archived. The one call of a
\* behaviour draws its options and what the search of S finds.
SubtreeNotes == << <<"root", "text">>, <<"_hidden", "text">>, <<"A", "text">>,
                   <<"B", "text">>, <<"S", "search">> >>
SubtreeOrder == <<"root", "A", "B">>
SubtreeBranchRows(child, ps) ==
    LET order == Filter(SubtreeOrder, ps)
    IN [i \in 1..Len(order) |-> <<child, order[i], FALSE>>]

FoundByS ==
    {[thrown |-> FALSE, ids |-> ids] : ids \in {<<>>, <<"A">>, <<"root", "B">>,
                                                <<"S", "_hidden", "X">>}}
    \cup {[thrown |-> TRUE, ids |-> <<>>]}

InitSubtree ==
    /\ \E pA \in {{"root"}, {"B"}, {"root", "B"}}, pB \in {{"root"}, {"A"}, {"root", "A"}},
          pS \in {{"A"}, {"B"}},
          archivedRows \in {<<>>, << <<"B", "label", "archived", "", FALSE, 10>> >>} :
          InitFrom(Load(SubtreeNotes,
                        << <<"root", "none", FALSE>>, <<"_hidden", "root", FALSE>> >>
                           \o SubtreeBranchRows("A", pA) \o SubtreeBranchRows("B", pB)
                           \o SubtreeBranchRows("S", pS),
                        archivedRows))
    /\ last = NoOp

\* note.getSubtree({includeArchived, includeHidden, resolveSearch})
GetSubtree(n, opts) ==
    /\ n \in notes
    /\ last.op = "init"
    /\ LET Return(r) ==
               /\ SetBecca(r.b)
               /\ last' = [NoOp EXCEPT !.op = "getSubtree", !.note = n, !.arg = opts,
                                       !.logged = r.logged,
                                       !.res = [notes |-> r.notes,
                                                relationships |-> r.relationships]]
       IN Return(getSubtreeWith(Becca, n, opts))
    /\ UNCHANGED outside

NextSubtree ==
    \E n \in {"root", "A", "B", "S"}, includeArchived \in BOOLEAN, includeHidden \in BOOLEAN,
       resolveSearch \in BOOLEAN, found \in FoundByS :
        GetSubtree(n, [includeArchived |-> includeArchived, includeHidden |-> includeHidden,
                       resolveSearch |-> resolveSearch, found |-> [s \in {"S"} |-> found]])

SpecSubtree == InitSubtree /\ [][NextSubtree]_vars

\* ------------------------------------------------- positions of attributes
\* root above A above B; root may own an inheritable label at position 30 and
\* A a label at position 10; attributes are added to A and B with and without
\* a position.
MaxAdds == 3
PosNotes == << <<"root", "text">>, <<"A", "text">>, <<"B", "text">> >>
PosBranches == << <<"root", "none", FALSE>>, <<"A", "root", FALSE>>, <<"B", "A", FALSE>> >>
Positions == {NoPosition, 5, 20}

InitPos ==
    /\ \E rootRows \in {<<>>, << <<"root", "label", "color", "w", TRUE, 30>> >>},
          ownedRows \in {<<>>, << <<"A", "label", "archived", "", FALSE, 10>> >>} :
          InitFrom(Load(PosNotes, PosBranches, rootRows \o ownedRows))
    /\ last = NoOp

\* note.addAttribute('label', 'color', '', false, position)
AddAttributeAt(n, position) ==
    /\ n \in notes
    /\ last.step < MaxAdds
    /\ LET Return(r) ==
               /\ SetBecca(r.b)
               /\ UNCHANGED outside
               /\ last' = [Op("addAttributeAt", n) EXCEPT
                              !.ok = r.ok, !.h = r.h, !.position = position,
                              !.maxOwned = MaxPosition(Becca, ownedAttributes[n])]
       IN Return(addAttribute(Becca, n, "label", "color", "", FALSE, position))

NextPos ==
    \/ \E n \in {"A", "B"}, position \in Positions : AddAttributeAt(n, position)
    \/ \E n \in {"A", "B"} : GetAttributes(n)

SpecPos == InitPos /\ [][NextPos]_vars

\* ------------------------------------------ invalidation over cyclic graphs
\* root, A and B with parent cycles between A and B, template and inherit
\* relations between them and from root, and every cache filled by its reader.
InitInv ==
    /\ \E pA \in {{"root"}, {"B"}, {"root", "B"}}, pB \in {{}, {"root"}, {"A"}},
          tA \in {NoTarget, "B"}, tB \in {NoTarget, "A"}, tR \in {NoTarget, "B"} :
          InitFrom(Load(CycNotes,
                        << <<"root", "none", FALSE>> >> \o BranchRows("A", pA) \o BranchRows("B", pB),
                        << <<"A", "label", "archived", "", TRUE, 10>> >>
                           \o RelationRows("A", "template", tA)
                           \o RelationRows("B", "inherit", tB)
                           \o RelationRows("root", "template", tR)))
    /\ last = NoOp

\* note.getFlatText()
GetFlatText(n) ==
    /\ n \in notes
    /\ flatTextCache[n] = NullText
    /\ SetBecca(getFlatText(Becca, n).b)
    /\ UNCHANGED outside
    /\ UNCHANGED last

\* note.invalidateSubTree()
InvalidateSubTree(n) ==
    /\ n \in notes
    /\ SetBecca(invalidateSubTree(Becca, n, <<>>))
    /\ last' = [NoOp EXCEPT !.op = "invalidateSubTree", !.note = n, !.step = 1 - last.step,
                            !.cached = {m \in notes : attributeCache[m] # NullAttrs
                                                       /\ ancestorCache[m] # NullNotes
                                                       /\ flatTextCache[m] # NullText}]
    /\ UNCHANGED outside

NextInv ==
    \E n \in CycReaders :
        GetAttributes(n) \/ GetAncestors(n) \/ GetFlatText(n) \/ InvalidateSubTree(n)

SpecInv == InitInv /\ [][NextInv]_vars

\* --------------------------------- reads over acyclic graphs with templates
\* root owns an inheritable label, A a template marker and an inheritable
\* label; A and B are placed below root and _hidden, B may be a clone; B,
\* _hidden and A may own a template/inherit relation.
TplNotes == << <<"root", "text">>, <<"_hidden", "text">>, <<"A", "text">>, <<"B", "text">> >>

\* the notes reached from n over parent links and template/inherit relations
RECURSIVE ReachedFrom(_, _, _)
ReachedFrom(b, ns, k) ==
    IF k = 0 THEN ns
    ELSE ReachedFrom(b, ns \cup UNION {Range(b.parents[n]) \cup
                                         {b.attrs[h].value : h \in
                                             {g \in Range(b.ownedAttributes[n]) :
                                                 isTemplateRelation(b.attrs[g])}} : n \in ns},
                     k - 1)

NextOf(b, n) ==
    (Range(b.parents[n]) \cup {b.attrs[h].value : h \in {g \in Range(b.ownedAttributes[n]) :
                                                           isTemplateRelation(b.attrs[g])}})
    \cap b.notes

Acyclic(b) == \A n \in b.notes : n \notin ReachedFrom(b, NextOf(b, n), Cardinality(b.notes))

InitTpl ==
    /\ \E pA \in (SUBSET {"root", "_hidden"}) \ {{}},
          pB \in (SUBSET {"root", "_hidden", "A"}) \ {{}},
          tB \in {NoTarget, "A", "_hidden"}, tH \in {NoTarget, "A"}, tA \in {NoTarget, "root"},
          markerInheritable \in BOOLEAN :
          LET b == Load(TplNotes,
                        << <<"root", "none", FALSE>>, <<"_hidden", "root", FALSE>> >>
                           \o DagBranchRows("A", pA) \o DagBranchRows("B", pB),
                        << <<"root", "label", "color", "w", TRUE, 10>>,
                           <<"A", "label", "template", "", markerInheritable, 10>>,
                           <<"A", "label", "archived", "", TRUE, 20>>,
                           <<"B", "label", "workspacetemplate", "", FALSE, 10>> >>
                           \o RelationRows("B", "template", tB)
                           \o RelationRows("_hidden", "template", tH)
                           \o RelationRows("A", "inherit", tA))
          IN Acyclic(b) /\ InitFrom(b)
    /\ last = NoOp

NextTpl == \E n \in {"root", "_hidden", "A", "B"} : GetAttributes(n)

SpecTpl == InitTpl /\ [][NextTpl]_vars

\* ------------------------------------------------- rows out of order
\* becca_loader, on a note row: the note of that id is filled in from the row
\* (note.updateFromRow), or constructed when the cache has none
noteRowProcessed(b, n, type) ==
    IF n \in b.notes
    THEN [b EXCEPT !.noteType[n] = type, !.isBeingDeleted[n] = FALSE]
    ELSE LoadNote(b, n, type)

\* becca_loader, on a new attribute row: new BAttribute(row)
attributeRowProcessed(b, row) ==
    LoadAttribute(b, row.noteId, row.type, row.name, row.value, row.isInheritable, 10)

SyncNoteRows == << [noteId |-> "A", type |-> "text"], [noteId |-> "B", type |-> "code"] >>
SyncAttributeRows ==
    << [noteId |-> "A", type |-> "label", name |-> "color", value |-> "w", isInheritable |-> FALSE],
       [noteId |-> "A", type |-> "relation", name |-> "link", value |-> "B", isInheritable |-> FALSE],
       [noteId |-> "B", type |-> "label", name |-> "archived", value |-> "", isInheritable |-> TRUE],
       [noteId |-> "B", type |-> "relation", name |-> "template", value |-> "A", isInheritable |-> FALSE] >>

InitRows ==
    /\ InitBecca(Load(<< <<"root", "text">> >>, << <<"root", "none", FALSE>> >>, <<>>))
    /\ searchContext = SearchContextNew
    /\ pending = Range(SyncNoteRows) \cup Range(SyncAttributeRows)
    /\ InitSession
    /\ InitMutex
    /\ InitSync
    /\ last = NoOp

\* a note row is processed
ProcessNoteRow(row) ==
    /\ row \in pending
    /\ pending' = pending \ {row}
    /\ SetBecca(noteRowProcessed(Becca, row.noteId, row.type))
    /\ UNCHANGED outsideRows
    /\ last' = [NoOp EXCEPT !.op = "noteRow", !.note = row.noteId, !.type = row.type]

\* an attribute row is processed
ProcessAttributeRow(row) ==
    /\ row \in pending
    /\ pending' = pending \ {row}
    /\ SetBecca(attributeRowProcessed(Becca, row))
    /\ UNCHANGED outsideRows
    /\ last' = [NoOp EXCEPT !.op = "attributeRow", !.note = row.noteId, !.type = row.type,
                            !.name = row.name, !.value = row.value, !.h = Len(attrs) + 1]

NextRows ==
    \/ \E row \in Range(SyncNoteRows) : ProcessNoteRow(row)
    \/ \E row \in Range(SyncAttributeRows) : ProcessAttributeRow(row)

SpecRows == InitRows /\ [][NextRows]_vars

\* ------------------------------------------- titles of protected notes
DataKeys == { <<1, 2>>, <<>> }
Titles == { [text |-> "T", encrypted |-> FALSE], [text |-> "U", encrypted |-> FALSE] }
TitledNotes == {"A", "B"}

InitTitles ==
    /\ InitBecca(Load(BaseNotes, BaseBranches, <<>>))
    /\ searchContext = SearchContextNew
    /\ pending = {}
    /\ dataKey = NullKey
    /\ \E p \in [NoteIds -> BOOLEAN], t \in Titles :
          /\ isProtected = p
          /\ isDecrypted = [n \in NoteIds |-> ~p[n]]
          /\ title = [n \in NoteIds |-> IF p[n] THEN encryptString(t) ELSE t]
    /\ \A n \in NoteIds \ TitledNotes : ~isProtected[n]
    /\ InitMutex
    /\ InitSync
    /\ last = NoOp

Observed(op, n) == [NoOp EXCEPT !.op = op, !.note = n]

\* protectedSessionService.setDataKey(decryptedDataKey)
SetDataKey(decryptedDataKey) ==
    /\ dataKey' = decryptedDataKey
    /\ UNCHANGED <<title, isProtected, isDecrypted>>
    /\ UNCHANGED <<beccaVars, outsideSession>>
    /\ last' = Observed("setDataKey", "")

\* protectedSessionService.resetDataKey()
ResetDataKey ==
    /\ dataKey' = NullKey
    /\ UNCHANGED <<title, isProtected, isDecrypted>>
    /\ UNCHANGED <<beccaVars, outsideSession>>
    /\ last' = Observed("resetDataKey", "")

\* note.updateFromRow(row): a row of the notes table is put in the note
UpdateFromRow(n, plain, protected) ==
    LET Put(note) ==
            /\ title' = [title EXCEPT ![n] = note.title]
            /\ isProtected' = [isProtected EXCEPT ![n] = note.isProtected]
            /\ isDecrypted' = [isDecrypted EXCEPT ![n] = note.isDecrypted]
            /\ flatTextCache' = [flatTextCache EXCEPT ![n] = note.flatTextCache]
    IN /\ Put(update(dataKey, [title |-> IF protected THEN encryptString(plain) ELSE plain,
                               isProtected |-> protected,
                               flatTextCache |-> flatTextCache[n]]))
       /\ UNCHANGED <<dataKey, beccaButFlatText, outsideSession>>
       /\ last' = Observed("updateFromRow", n)

\* note.decrypt(), whoever calls it
Decrypt(n) ==
    LET Put(note) ==
            /\ title' = [title EXCEPT ![n] = note.title]
            /\ isDecrypted' = [isDecrypted EXCEPT ![n] = note.isDecrypted]
            /\ flatTextCache' = [flatTextCache EXCEPT ![n] = note.flatTextCache]
    IN /\ Put(decrypt(dataKey, NoteOf(n)))
       /\ UNCHANGED <<dataKey, isProtected, beccaButFlatText, outsideSession>>
       /\ last' = Observed("decrypt", n)

\* note.getTitleOrProtected()
GetTitleOrProtected(n) ==
    /\ last' = [Observed("getTitleOrProtected", n) EXCEPT
                   !.res = getTitleOrProtected(dataKey, NoteOf(n)),
                   !.ok = isProtectedSessionAvailable(dataKey)]
    /\ UNCHANGED <<session, beccaVars, outsideSession>>

NextTitles ==
    \/ \E decryptedDataKey \in DataKeys : SetDataKey(decryptedDataKey)
    \/ ResetDataKey
    \/ \E n \in TitledNotes, plain \in Titles, protected \in BOOLEAN :
           UpdateFromRow(n, plain, protected)
    \/ \E n \in TitledNotes : Decrypt(n)
    \/ \E n \in TitledNotes : GetTitleOrProtected(n)

SpecTitles == InitTitles /\ [][NextTitles]_vars

\* ------------------------------- expiration of the protected session
\* options.getOptionInt('protectedSessionTimeout'), in seconds
protectedSessionTimeout == 600
MaxIdle == 22
Idling == {10, 11}
SessionNotes == {"A"}
SessionKeys == { <<1, 2>> }
\* what data_encryption.encrypt does when it is given no key
EncryptWithoutKey == {"thrown", "ciphertext"}

\* protectedSessionService.touchProtectedSession(): the date it leaves
touchProtectedSession(key, touched, minutes) ==
    IF isProtectedSessionAvailable(key) THEN DateNow(minutes) ELSE touched

\* protectedSessionService.checkProtectedSessionExpiration(): the data key it leaves
checkProtectedSessionExpiration(key, touched, minutes) ==
    IF /\ isProtectedSessionAvailable(key)
       /\ touched # NoDate
       /\ DateNow(minutes) - touched > protectedSessionTimeout * 1000
    THEN NullKey
    ELSE key

\* BNote.getPojo() through getPojoToSave(): the title as it is in memory
getPojoTitle(key, note, withoutKey) ==
    [thrown |-> FALSE, hasTitle |-> TRUE, title |-> note.title]

\* protectedSessionService.encrypt(plainText) of a title
encrypt(key, plainText, withoutKey) ==
    IF key = NullKey /\ withoutKey = "thrown"
    THEN [thrown |-> TRUE, res |-> NoTitle]
    ELSE [thrown |-> FALSE, res |-> encryptString(plainText)]

\* BNote.getPojoToSave(): the title of the pojo
getPojoToSave(key, note, withoutKey) ==
    IF note.isProtected
    THEN IF note.isDecrypted
         THEN LET Saved(e) == [thrown |-> e.thrown, hasTitle |-> ~e.thrown, title |-> e.res]
              IN Saved(encrypt(key, note.title, withoutKey))
         ELSE [thrown |-> FALSE, hasTitle |-> FALSE, title |-> NoTitle]
    ELSE [thrown |-> FALSE, hasTitle |-> TRUE, title |-> note.title]

\* One note is loaded protected or not; protected sessions are entered, touched,
\* left and expired while the note is loaded again, decrypted, flattened and saved.
InitExpiry ==
    /\ InitTitles
    /\ \A n \in NoteIds \ SessionNotes : ~isProtected[n]

\* loginToProtectedSession(req), the password verified
LoginToProtectedSession(decryptedDataKey) ==
    /\ dataKey' = decryptedDataKey
    /\ sessionStartedAt' = DateNow(clock)
    /\ last' = Observed("loginToProtectedSession", "")
    /\ UNCHANGED <<title, isProtected, isDecrypted, lastProtectedSessionOperationDate>>
    /\ UNCHANGED <<clock, beccaVars, outsideExpiry>>

\* logoutFromProtectedSession; who subscribes to LEAVE_PROTECTED_SESSION is not
\* in this source
LogoutFromProtectedSession ==
    /\ dataKey' = NullKey
    /\ last' = Observed("logoutFromProtectedSession", "")
    /\ UNCHANGED <<title, isProtected, isDecrypted, expiry>>
    /\ UNCHANGED <<clock, beccaVars, outsideExpiry>>

\* the touchProtectedSession route
TouchProtectedSession ==
    /\ lastProtectedSessionOperationDate' =
           touchProtectedSession(dataKey, lastProtectedSessionOperationDate, clock)
    /\ last' = Observed("touchProtectedSession", "")
    /\ UNCHANGED <<session, sessionStartedAt, clock, beccaVars, outsideExpiry>>

\* setInterval(() => protectedSessionService.checkProtectedSessionExpiration(), 30000)
CheckProtectedSessionExpiration ==
    /\ dataKey' = checkProtectedSessionExpiration(dataKey, lastProtectedSessionOperationDate,
                                                  clock)
    /\ last' = [Observed("checkProtectedSessionExpiration", "") EXCEPT
                   !.ok = dataKey # NullKey /\ dataKey' = NullKey]
    /\ UNCHANGED <<title, isProtected, isDecrypted, expiry>>
    /\ UNCHANGED <<clock, beccaVars, outsideExpiry>>

\* time passes
Idle(minutes) ==
    /\ clock + minutes <= MaxIdle
    /\ clock' = clock + minutes
    /\ last' = [NoOp EXCEPT !.op = "idle"]
    /\ UNCHANGED <<session, expiry, beccaVars, outsideExpiry>>

\* note.getPojoToSave()
GetPojoToSave(n, withoutKey) ==
    /\ last' = [Observed("getPojoToSave", n) EXCEPT
                   !.res = getPojoToSave(dataKey, NoteOf(n), withoutKey)]
    /\ UNCHANGED <<session, expiry, clock, beccaVars, outsideExpiry>>

NextExpiry ==
    \/ \E decryptedDataKey \in SessionKeys : LoginToProtectedSession(decryptedDataKey)
    \/ LogoutFromProtectedSession
    \/ TouchProtectedSession
    \/ CheckProtectedSessionExpiration
    \/ \E minutes \in Idling : Idle(minutes)
    \/ \E n \in SessionNotes, plain \in Titles, protected \in BOOLEAN :
           UpdateFromRow(n, plain, protected)
    \/ \E n \in SessionNotes : Decrypt(n)
    \/ \E n \in SessionNotes : GetFlatText(n)
    \/ \E n \in SessionNotes, withoutKey \in EncryptWithoutKey : GetPojoToSave(n, withoutKey)

SpecExpiry == InitExpiry /\ [][NextExpiry]_vars

\* ------------------------------------------- exclusive execution
\* the sync run and the scripts that call api.runOutsideOfSync(callback)
Callers == {"sync", "script1", "script2", "script3"}

InitExclusive ==
    /\ InitFrom(Load(BaseNotes, BaseBranches, <<>>))
    /\ last = NoOp

\* syncMutex.doExclusively(func): the caller starts waiting for the mutex
DoExclusively(caller) ==
    /\ caller \notin running /\ ~Includes(waiters, caller)
    /\ waiters' = Append(waiters, caller)
    /\ UNCHANGED <<locked, running>>
    /\ UNCHANGED <<beccaVars, outsideMutex>>
    /\ last' = Observed("doExclusively", caller)

\* the mutex is acquired for the first waiter, whose callback starts
Acquire ==
    /\ CanAcquire(locked, waiters)
    /\ locked' = TRUE
    /\ running' = running \cup {Head(waiters)}
    /\ waiters' = Tail(waiters)
    /\ UNCHANGED <<beccaVars, outsideMutex>>
    /\ last' = Observed("acquire", Head(waiters))

\* the callback of a caller is finished (or threw): the mutex is released
Release(caller) ==
    /\ caller \in running
    /\ running' = running \ {caller}
    /\ locked' = FALSE
    /\ UNCHANGED waiters
    /\ UNCHANGED <<beccaVars, outsideMutex>>
    /\ last' = Observed("release", caller)

NextExclusive ==
    \/ \E caller \in Callers : DoExclusively(caller)
    \/ Acquire
    \/ \E caller \in Callers : Release(caller)

SpecExclusive == InitExclusive /\ [][NextExclusive]_vars

\* ------------------------------------------- errors of one search context
\* the messages the lexer, the paren resolver and the parser report
ErrorMessages == {"unmatched parenthesis", "misplaced expression", "unknown operator"}

InitContext ==
    /\ InitFrom(Load(BaseNotes, BaseBranches, <<>>))
    /\ last = NoOp

\* searchContext.addError(error); last.res holds the errors added so far
AddError(error) ==
    /\ Len(last.res) < MaxErrors
    /\ searchContext' = addError(searchContext, error)
    /\ UNCHANGED <<beccaVars, outsideSearch>>
    /\ last' = [NoOp EXCEPT !.op = "addError", !.arg = error, !.res = Append(last.res, error)]

NextContext == \E error \in ErrorMessages : AddError(error)

SpecContext == InitContext /\ [][NextContext]_vars

\* ------------------------------------------- searches over a tree of notes
\* root -> A, S (a search note); B and C placed anywhere below, clones included.
TreeNotes == << <<"root", "text">>, <<"_hidden", "text">>, <<"A", "text">>,
                <<"S", "search">>, <<"B", "text">>, <<"C", "text">> >>
TreeOrder == <<"_hidden", "S", "B", "A", "root">>

TreeBranchRows(child, ps) ==
    LET order == Filter(TreeOrder, ps)
    IN [i \in 1..Len(order) |-> <<child, order[i], FALSE>>]

InitTree ==
    /\ \E pB \in (SUBSET {"root", "A", "_hidden"}) \ {{}},
          pC \in (SUBSET {"A", "B", "S", "_hidden"}) \ {{}} :
          InitFrom(Load(TreeNotes,
                        << <<"root", "none", FALSE>>, <<"_hidden", "root", FALSE>>,
                           <<"A", "root", FALSE>>, <<"S", "root", FALSE>> >>
                           \o TreeBranchRows("B", pB) \o TreeBranchRows("C", pC),
                        <<>>))
    /\ last = NoOp

AncestorIds == {"root", "A", "B", "_hidden", "X"}
DepthConditions == { <<>>, <<"e", "q", "0">>, <<"e", "q", "1">>, <<"e", "q", "2">>,
                     <<"g", "t", "0">>, <<"g", "t", "1">>, <<"l", "t", "1">>,
                     <<"l", "t", "2">>, <<"l", "t", "3">>, <<"g", "e", "1">>,
                     <<"e", "q">>, <<"1">> }
InputNoteSets == { {"root", "_hidden", "A", "S", "B", "C"}, {"A", "C", "_hidden"} }

\* new AncestorExp(ancestorNoteId, ancestorDepth).execute(inputNoteSet, {}, searchContext)
ExecuteAncestorExp(ancestorNoteId, ancestorDepth, inputNoteSet) ==
    LET Return(exp, r) ==
            /\ SetBecca(r.b)
            /\ searchContext' = r.ctx
            /\ UNCHANGED outsideSearch
            /\ last' = [NoOp EXCEPT !.op = "ancestor", !.note = ancestorNoteId,
                                    !.arg = ancestorDepth, !.input = inputNoteSet,
                                    !.res = r.res,
                                    !.logged = exp.ancestorDepthComparator.logged + r.logged]
        Execute(exp) == Return(exp, AncestorExpExecute(Becca, exp, inputNoteSet, SearchContextNew))
    IN Execute(AncestorExpNew(ancestorNoteId, ancestorDepth))

NextSearch ==
    \E ancestorNoteId \in AncestorIds, ancestorDepth \in DepthConditions,
       inputNoteSet \in InputNoteSets :
        ExecuteAncestorExp(ancestorNoteId, ancestorDepth, inputNoteSet)

SpecSearch == InitTree /\ [][NextSearch]_vars

\* --------------------------------------------------- queries over the tree
\* the tree above with a label color on B; C may hang under the search note only
InitQuery ==
    /\ \E pB \in (SUBSET {"root", "A"}) \ {{}},
          pC \in (SUBSET {"A", "B", "S"}) \ {{}},
          inheritable \in BOOLEAN :
          InitFrom(Load(TreeNotes,
                        << <<"root", "none", FALSE>>, <<"_hidden", "root", FALSE>>,
                           <<"A", "root", FALSE>>, <<"S", "root", FALSE>> >>
                           \o TreeBranchRows("B", pB) \o TreeBranchRows("C", pC),
                        << <<"B", "label", "color", "", inheritable, 10>> >>))
    /\ last = NoOp

\* becca.getAllNoteSet(): the notes in the order they were loaded
AllNotes == [i \in 1..Len(TreeNotes) |-> TreeNotes[i][1]]

Queries == { <<>>, <<"text">>, <<"search">>, <<"b">>, <<"#color">>, <<"text", "#color">>,
             <<"(", "#color", ")">>, <<"#none">>,
             <<"(", "#color">>, <<"#color", ")">>, <<"text", "(", "#color">>,
             <<"c", "#color", ")">>, <<"search", ")">>,
             <<"#color", "=">>, <<"text", "=">>, <<"text", "(", "=">> }

\* findResultsWithQuery(query, new SearchContext())
FindResultsWithQuery(query) ==
    LET Return(r) ==
            /\ SetBecca(r.b)
            /\ searchContext' = r.ctx
            /\ UNCHANGED outsideSearch
            /\ last' = [NoOp EXCEPT !.op = "findResultsWithQuery", !.arg = query,
                                    !.res = r.res, !.thrown = r.thrown]
    IN Return(findResultsWithQuery(Becca, AllNotes, query, SearchContextNew))

NextQuery == \E query \in Queries : FindResultsWithQuery(query)

SpecQuery == InitQuery /\ [][NextQuery]_vars

\* ------------------------------------------- the hidden subtree checked
MaxChecks == 3
HiddenDomain == HiddenNoteIds \cup {"root"}

\* what the cache holds of the hidden subtree before the check: nothing, its
\* root (of the right type or not), or the launcher moved to another parent
ExistingHidden ==
    { [noteRows |-> <<>>, branchRows |-> <<>>],
      [noteRows |-> << <<"_hidden", "doc">> >>,
       branchRows |-> << <<"_hidden", "root", FALSE>> >>],
      [noteRows |-> << <<"_hidden", "text">> >>,
       branchRows |-> << <<"_hidden", "root", FALSE>> >>],
      [noteRows |-> << <<"_hidden", "doc">>, <<"_lbRoot", "doc">>,
                       <<"_lbBackInHistory", "launcher">> >>,
       branchRows |-> << <<"_hidden", "root", FALSE>>, <<"_lbRoot", "_hidden", FALSE>>,
                         <<"_lbBackInHistory", "_lbRoot", FALSE>> >>] }

InitHidden ==
    /\ \E e \in ExistingHidden :
          InitFrom([LoadBranches(LoadNotes(EmptyBeccaOver(HiddenDomain),
                                           << <<"root", "text">> >> \o e.noteRows),
                                 << <<"root", "none", FALSE>> >> \o e.branchRows)
                       EXCEPT !.now = 1])
    /\ last = NoOp

\* hiddenSubtreeService.checkHiddenSubtree(force)
CheckHiddenSubtree(force, isDbUpToDate) ==
    /\ last.step < MaxChecks
    /\ LET Return(r) ==
               /\ SetBecca(r.b)
               /\ UNCHANGED outside
               /\ last' = [Op("checkHiddenSubtree", "_hidden") EXCEPT
                              !.ok = r.ok, !.thrown = ~r.ok,
                              !.arg = IF force \/ isDbUpToDate THEN "checked" ELSE "skipped"]
       IN Return(checkHiddenSubtree(Becca, force, isDbUpToDate))

NextHidden ==
    \/ \E force \in BOOLEAN, isDbUpToDate \in BOOLEAN : CheckHiddenSubtree(force, isDbUpToDate)
    \/ \E n \in HiddenDomain : GetAttributes(n)
    \/ \E n \in {"_hidden", "_lbBackInHistory"}, h \in attributes : RemoveAttribute(n, h)

SpecHidden == InitHidden /\ [][NextHidden]_vars

\* --------------------------------------------------- results put in order
MaxScore == 1
MaxPathLength == 2
MaxTitle == 2
ResultNotes == <<"A", "B", "C">>

\* the scored results of three notes, in each order the notes can be produced
ScoredResults ==
    [1..Len(ResultNotes) ->
        [score : 0..MaxScore, pathLength : 1..MaxPathLength, notePathTitle : 1..MaxTitle]]
ProductionOrders ==
    {p \in [1..Len(ResultNotes) -> 1..Len(ResultNotes)] : \A i, j \in DOMAIN p : p[i] = p[j] => i = j}
SearchResults(scored, order) ==
    [i \in 1..Len(ResultNotes) |->
        [noteId |-> ResultNotes[order[i]], score |-> scored[order[i]].score,
         pathLength |-> scored[order[i]].pathLength,
         notePathTitle |-> scored[order[i]].notePathTitle]]

\* last.arg holds the results as the expression produced them
InitOrder ==
    /\ InitFrom(Load(BaseNotes, BaseBranches, <<>>))
    /\ \E scored \in ScoredResults, order \in ProductionOrders :
          last = [NoOp EXCEPT !.arg = SearchResults(scored, order)]

\* the ordering part of findResultsWithExpression, on the results produced
OrderResults(sorted) ==
    /\ last.op = "init"
    /\ UNCHANGED <<beccaVars, outside>>
    /\ last' = [last EXCEPT !.op = "orderResults", !.sorted = sorted,
                            !.res = orderResults(last.arg, sorted)]

NextOrder == \E sorted \in BOOLEAN : OrderResults(sorted)

SpecOrder == InitOrder /\ [][NextOrder]_vars

\* ------------------------------------------------------------------ claims
Justified(b, n) ==
    LET r == getAttributes(b, n)
        own == Range(b.ownedAttributes[n])
    IN /\ own \subseteq Range(r.res)
       /\ \A h \in Range(r.res) \ own :
             \/ /\ b.attrs[h].isInheritable
                /\ \E p \in Range(b.parents[n]) : h \in Range(getAttributes(r.b, p).res)
             \/ \E t \in Range(r.res) :
                   /\ isTemplateRelation(b.attrs[t])
                   /\ b.attrs[t].value \in b.notes
                   /\ h \in Range(getAttributes(r.b, b.attrs[t].value).res)

\* C1: in every cache state reached by operations that all succeeded, the
\* effective attributes of every note hold all its owned attributes, and each
\* other one is inheritable and effective on a parent, or effective on the
\* target of a template/inherit relation among the effective attributes.
C1_EffectiveAttributesJustified == last.allOk => \A n \in notes : Justified(Becca, n)

\* BNote.hasOwnedLabel(name)
hasOwnedLabel(b, n, name) == Len(getOwnedAttributes(b, n, "label", name)) > 0

OwnsInheritableArchived(b, n) ==
    \E h \in Range(b.ownedAttributes[n]) :
        /\ h \in b.attributes
        /\ b.attrs[h].type = "label" /\ b.attrs[h].name = "archived"
        /\ b.attrs[h].isInheritable

ArchivedThroughParent(exempt) ==
    \A a \in notes : OwnsInheritableArchived(Becca, a) =>
        \A c \in (Range(children[a]) \cap notes) \ exempt :
            /\ isArchived(Becca, c)
            /\ \A h \in Range(ownedAttributes[c]) : attrs[h].noteId = c

\* C2 as stated: while a note owns an inheritable label archived, every child
\* reads as archived, memoized before or not, and owns no label of the parent.
C2_EveryChildArchived == ArchivedThroughParent({})

\* C2 amended: the same for every child other than _hidden, which inherits
\* nothing from its parent.
C2_ChildArchivedExceptHidden == ArchivedThroughParent({"_hidden"})

\* C2 witness: the label was just added to A while B's attributes were memoized
C2_Witness ==
    /\ last.op = "addAttribute" /\ last.ok /\ last.note = "A"
    /\ last.name = "archived" /\ last.isInheritable
    /\ "B" \in last.cached
    /\ "B" \in Range(children["A"])
    /\ ~hasOwnedLabel(Becca, "B", "archived")

NoDuplicates(s) == \A i, j \in 1..Len(s) : s[i] = s[j] => i = j

\* C3: on any graph, cyclic ones included, getAttributes() of every note
\* returns without running out of stack, and its list repeats no attribute.
C3_GetAttributesTerminates ==
    /\ ~stackOverflow
    /\ \A n \in notes :
          LET r == getAttributes(Becca, n)
          IN ~r.b.stackOverflow /\ NoDuplicates(r.res) /\ Len(r.res) <= Len(attrs)

\* C3 witness: attributes were read on a graph with a parent cycle and a
\* relation cycle between A and B
C3_Witness ==
    /\ "B" \in Range(parents["A"]) /\ "A" \in Range(parents["B"])
    /\ \E h \in Range(ownedAttributes["A"]) : isTemplateRelation(attrs[h]) /\ attrs[h].value = "B"
    /\ \E h \in Range(ownedAttributes["B"]) : isTemplateRelation(attrs[h]) /\ attrs[h].value = "A"
    /\ attributeCache["A"] # NullAttrs /\ attributeCache["B"] # NullAttrs

JustAdded == last'.op = "addAttribute" /\ last'.step = last.step + 1 /\ last'.ok

RoundTrips(b, in) ==
    LET g == getOwnedAttribute(b, in.note, in.type, in.name)
    IN /\ g # 0
       /\ b.attrs[g].type = in.type
       /\ b.attrs[g].name = in.name
       /\ b.attrs[g].value = in.value

\* C4 as stated: after addAttribute(type, name, value) succeeded on a note,
\* whatever it owned, getOwnedAttribute(type, name) has that type, name, value.
C4_RoundTripAnyOwned ==
    [][(JustAdded /\ ~HasSigil(last'.name)) => RoundTrips(Becca', last')]_vars

\* C4 amended: it does so when the note owned no attribute of that type and
\* name before the call.
C4_RoundTripWhenNameNew ==
    [][(JustAdded /\ ~HasSigil(last'.name)
          /\ getOwnedAttribute(Becca, last'.note, last'.type, last'.name) = 0)
        => RoundTrips(Becca', last')]_vars

\* C4 witness: an attribute was added to a note that owned other attributes
C4_Witness ==
    /\ last.op = "addAttribute" /\ last.ok /\ ~HasSigil(last.name)
    /\ Len(ownedAttributes[last.note]) >= 2
    /\ getOwnedAttributes(Becca, last.note, last.type, last.name) = <<last.h>>

\* C5: a second setAttribute with the arguments of the one just before it
\* adds no owned attribute, saves nothing and touches no utcDateModified.
C5_SetAttributeIdempotent ==
    [][(/\ last.op = "setAttribute" /\ last'.op = "setAttribute"
        /\ last'.step = last.step + 1
        /\ last'.note = last.note /\ last'.type = last.type
        /\ last'.name = last.name /\ last'.value = last.value)
       => /\ Len(ownedAttributes'[last.note]) = Len(ownedAttributes[last.note])
          /\ saves' = saves
          /\ Len(attrs') = Len(attrs)
          /\ \A h \in 1..Len(attrs) : attrs'[h].utcDateModified = attrs[h].utcDateModified]_vars

\* every chain root = n0, ..., nk = n in which each note is a parent of the next
Chains(n) ==
    {p \in UNION {[1..k -> notes] : k \in 1..Cardinality(notes)} :
        /\ p[1] = "root" /\ p[Len(p)] = n
        /\ \A i \in 1..(Len(p) - 1) : p[i] \in Range(parents[p[i + 1]])}

Bit(v) == IF v THEN 1 ELSE 0

\* (outside the hoisted subtree, archived, hidden, length) of a path
PathKey(path, hoistedNoteId) ==
    << Bit(~(hoistedNoteId = "root" \/ Includes(path, hoistedNoteId))),
       Bit(\E i \in 1..Len(path) : isArchived(Becca, path[i])),
       Bit(Includes(path, "_hidden")),
       Len(path) >>

LexLeq(x, y) ==
    \/ x = y
    \/ \E i \in 1..Len(x) : x[i] < y[i] /\ \A j \in 1..(i - 1) : x[j] = y[j]

\* C6: the path getBestNotePath(hoistedNoteId) returned is one of the note's
\* paths and no path of the note is smaller in the lexicographic order of
\* (outside the hoisted subtree, archived, hidden, length).
C6_BestPathMinimal ==
    last.op = "getBestNotePath" =>
        /\ last.res \in Chains(last.note)
        /\ \A p \in Chains(last.note) :
              LexLeq(PathKey(last.res, last.arg), PathKey(p, last.arg))

\* C6 witness: the longer path inside the hoisted subtree won over a shorter
\* one outside it
C6_Witness ==
    /\ last.op = "getBestNotePath" /\ last.note = "B" /\ last.arg = "A"
    /\ last.res = <<"root", "A", "B">>
    /\ <<"root", "B">> \in Chains("B")

\* C7: getAllNotePaths() returns each chain from root to the note once and
\* nothing else, and a repeated call returns the same list.
C7_AllNotePathsAreTheChains ==
    last.op = "getAllNotePaths" =>
        /\ NoDuplicates(last.res)
        /\ Range(last.res) = Chains(last.note)
        /\ \A i \in 1..Len(last.res) :
              last.res[i][1] = "root" /\ last.res[i][Len(last.res[i])] = last.note
        /\ getAllNotePaths(Becca, last.note, 0) = last.res

\* C7 witness: the paths of a note cloned under several parents were listed
C7_Witness ==
    /\ last.op = "getAllNotePaths" /\ last.note = "B"
    /\ Len(last.res) >= 3
    /\ <<"root", "A", "B">> \in Range(last.res)

RECURSIVE Up(_, _)
\* the notes reachable from a set of notes by at most k parent links
Up(S, k) ==
    IF k = 0 THEN S
    ELSE Up(S \cup UNION {Range(parents[x]) \cap notes : x \in S}, k - 1)

\* the notes reachable from n by one or more parent links
Reachable(n) == Up(Range(parents[n]) \cap notes, Cardinality(notes))

SingleChain(n) == \A x \in {n} \cup Reachable(n) : Len(parents[x]) <= 1

\* C8: getAncestors() of every note, memoized or not, lists each note
\* reachable by parent links once and nothing else, starts with the first
\* parent, and on a single chain lists nearer ancestors first.
C8_AncestorsAreReachable ==
    \A n \in notes :
        LET r == getAncestors(Becca, n).res IN
        /\ NoDuplicates(r)
        /\ Range(r) = Reachable(n)
        /\ (Len(parents[n]) > 0 => r[1] = parents[n][1])
        /\ (SingleChain(n) => \A i, j \in 1..Len(r) : i < j => r[j] \in Reachable(r[i]))

\* C8 witness: a clone's ancestors were read, which memoized the list of
\* _hidden on the way
C8_Witness ==
    /\ ancestorCache["B"] # NullNotes /\ Len(parents["B"]) >= 2
    /\ ancestorCache["_hidden"] = <<"root">>
    /\ Len(ancestorCache["B"]) >= 3

\* C9: no path getAllNotePaths() returned holds a search note before its
\* last element.
C9_NoPathThroughSearchNote ==
    last.op = "getAllNotePaths" =>
        \A i \in 1..Len(last.res) :
            \A j \in 1..(Len(last.res[i]) - 1) : noteType[last.res[i][j]] # "search"

IndexedOf(b, n) ==
    {h \in UNION {Range(b.attributeIndex[key]) : key \in DOMAIN b.attributeIndex} :
        b.attrs[h].noteId = n}

JustDeletedBranch ==
    last'.op = "deleteBranch" /\ last'.step = last.step + 1 /\ last'.allOk

\* C10: deleting the only parent branch of a note, after operations that all
\* succeeded, leaves the note deleted and none of its attributes in the
\* attribute index; deleting one of several strong branches leaves it alive.
C10_OnlyBranchDeletedSoftDeletes ==
    [][JustDeletedBranch =>
         /\ (Len(parentBranches[last'.note]) = 1 =>
                /\ noteIsDeleted(Becca', last'.note)
                /\ IndexedOf(Becca', last'.note) = {})
         /\ (Len(getStrongParentBranches(Becca, last'.note)) >= 2 =>
                ~noteIsDeleted(Becca', last'.note))]_vars

RECURSIVE WalkDown(_, _)
\* the notes reached from seen by k child steps that neither leave a search
\* note nor enter _hidden
WalkDown(seen, k) ==
    IF k = 0 THEN seen
    ELSE WalkDown(seen \cup {c \in notes \ {"_hidden"} :
                      \E p \in seen : noteType[p] # "search" /\ Includes(children[p], c)},
                  k - 1)

\* the subtree of x as getSubtree() delimits it with its default options
SubtreeOf(x) == IF x = "_hidden" THEN {} ELSE WalkDown({x}, Cardinality(notes))

RECURSIVE HopsUp(_, _)
\* the notes exactly k parent hops above the notes of from
HopsUp(from, k) ==
    IF k = 0 THEN from ELSE HopsUp(UNION {Range(parents[m]) : m \in from}, k - 1)

\* the least number of parent hops from n to x
MinHops(n, x) ==
    LET ks == {k \in 0..Cardinality(notes) : x \in HopsUp({n}, k)}
    IN IF ks = {} THEN Unreachable ELSE CHOOSE k \in ks : \A j \in ks : k <= j

\* what the depth conditions of the form eqN, gtN, ltN ask for
DepthMeaning ==
    { << <<"e", "q", "0">>, "eq", 0 >>, << <<"e", "q", "1">>, "eq", 1 >>,
      << <<"e", "q", "2">>, "eq", 2 >>, << <<"g", "t", "0">>, "gt", 0 >>,
      << <<"g", "t", "1">>, "gt", 1 >>, << <<"l", "t", "1">>, "lt", 1 >>,
      << <<"l", "t", "2">>, "lt", 2 >>, << <<"l", "t", "3">>, "lt", 3 >> }

Asked(meaning, hops) ==
    CASE meaning[2] = "eq" -> hops = meaning[3]
      [] meaning[2] = "gt" -> hops > meaning[3]
      [] meaning[2] = "lt" -> hops < meaning[3]

\* C11: an ancestor expression for an existing note X with depth condition
\* eqN, gtN or ltN returns exactly the notes of the input set that lie in X's
\* subtree (as getSubtree() delimits it) and whose least number of parent
\* hops to X is equal to, greater than or less than N.
C11_DepthScopedAncestor ==
    \A meaning \in DepthMeaning :
        (last.op = "ancestor" /\ last.note \in notes /\ last.arg = meaning[1]) =>
            Range(last.res) =
                {n \in last.input \cap SubtreeOf(last.note) :
                    Asked(meaning, MinHops(n, last.note))}

\* gt1 under root over root -> A -> B -> C and a clone of C under A: {B, C}
C11_Witness ==
    /\ last.op = "ancestor" /\ last.note = "root" /\ last.arg = <<"g", "t", "1">>
    /\ parents["B"] = <<"A">> /\ parents["C"] = <<"B", "A">>
    /\ Range(last.res) = {"B", "C"}
    /\ "A" \in last.input

\* depth conditions whose prefix is none of eq, gt, lt
UnrecognisedConditions == { <<"g", "e", "1">>, <<"1">> }

\* C12: an ancestor expression whose depth condition has an unrecognised
\* prefix records an error on the search context and returns the whole
\* intersection of the input set with the subtree, with no depth filtering.
C12_UnrecognisedPrefixReported ==
    (last.op = "ancestor" /\ last.note \in notes /\ last.arg \in UnrecognisedConditions) =>
        /\ hasError(searchContext)
        /\ Range(last.res) = last.input \cap SubtreeOf(last.note)

\* the cases validate() rejects: a type that is neither label nor relation, an
\* empty or blank name, a relation whose value is no note of the cache
Invalid(type, name, value) ==
    \/ type \notin {"label", "relation"}
    \/ name \in {"", " "}
    \/ type = "relation" /\ value \notin notes

\* the call saves an attribute: addAttribute always does, setAttribute unless
\* the note owns an attribute of that type and name with that very value
JustSaved ==
    /\ last'.op \in {"addAttribute", "setAttribute"} /\ last'.step = last.step + 1
    /\ \/ last'.op = "addAttribute"
       \/ FindOwned(Becca, last'.note, last'.type, last'.name) = 0
       \/ attrs[FindOwned(Becca, last'.note, last'.type, last'.name)].value # last'.value

\* C13: an addAttribute or setAttribute call that saves an attribute whose
\* type is neither label nor relation, whose name is empty or blank, or which
\* is a relation to a note absent from the cache, throws at that call, writes
\* no row and puts nothing in the id-map; the attribute keeps the type, name
\* and value it was given.
C13_InvalidAttributeRejected ==
    [][(JustSaved /\ Invalid(last'.type, last'.name, last'.value)) =>
           /\ ~last'.ok
           /\ saves' = saves
           /\ attributes' = attributes
           /\ attrs'[last'.h].type = last'.type
           /\ attrs'[last'.h].name = last'.name
           /\ attrs'[last'.h].value = last'.value]_vars

\* a rejected relation to a missing note, after a rejected blank name
C13_Witness ==
    /\ last.op = "setAttribute" /\ last.type = "relation" /\ last.value = "X" /\ ~last.ok
    /\ \E h \in DOMAIN attrs : attrs[h].name = " "
    /\ saves = 0

\* the cache without the clock
CacheOf(b) == [b EXCEPT !.now = 0]

JustFailedBatch ==
    last'.op = "createNote" /\ last'.step = last.step + 1 /\ ~last'.ok

\* C14: when an attribute of createNote's batch fails validation, the cache
\* after the call equals the cache before it: the note the batch created is
\* in no id-map, and no owned list, index entry or inbound list holds an
\* attribute of the batch.
C14_FailedBatchLeavesCacheAsBefore ==
    [][JustFailedBatch =>
           /\ CacheOf(Becca') = CacheOf(Becca)
           /\ last'.note \notin notes'
           /\ \A n \in NoteIds :
                  /\ Range(ownedAttributes'[n]) \subseteq Range(ownedAttributes[n])
                  /\ Range(targetRelations'[n]) \subseteq Range(targetRelations[n])
           /\ \A key \in DOMAIN attributeIndex' :
                  key \in DOMAIN attributeIndex
                      /\ Range(attributeIndex'[key]) \subseteq Range(attributeIndex[key])]_vars

\* a batch failed after it had put two attributes in the new note's owned list
C14_Witness ==
    /\ last.op = "createNote" /\ ~last.ok
    /\ Len(last.res) = 2
    /\ NewNoteId \notin notes

\* what a list of attribute objects holds, whatever their order
ContentOf(b, hs) ==
    {[noteId |-> b.attrs[h].noteId, type |-> b.attrs[h].type, name |-> b.attrs[h].name,
      value |-> b.attrs[h].value] : h \in Range(hs)}

\* the notes of a cache with their fields, owned attributes and inbound relations
CacheView(b) ==
    [n \in b.notes |-> [type |-> b.noteType[n],
                        owned |-> ContentOf(b, b.ownedAttributes[n]),
                        inbound |-> ContentOf(b, b.targetRelations[n])]]

\* the cache after the same rows arrived notes first
RowOrderCache ==
    Load(<< <<"root", "text">> >>
             \o [i \in 1..Len(SyncNoteRows) |-> <<SyncNoteRows[i].noteId, SyncNoteRows[i].type>>],
         << <<"root", "none", FALSE>> >>,
         [i \in 1..Len(SyncAttributeRows) |->
             <<SyncAttributeRows[i].noteId, SyncAttributeRows[i].type, SyncAttributeRows[i].name,
               SyncAttributeRows[i].value, SyncAttributeRows[i].isInheritable, 10>>])

\* C15: an attribute whose owner is unknown is owned by a placeholder note
\* registered under the owner's id; once the note's row is processed the note
\* carries the row's fields and still owns the attribute; and when every row
\* has been processed the cache is the one the notes-first order gives.
C15_PlaceholderFilledAnyOrder ==
    /\ \A h \in attributes :
           attrs[h].noteId \in notes /\ Includes(ownedAttributes[attrs[h].noteId], h)
    /\ \A row \in Range(SyncNoteRows) \ pending : noteType[row.noteId] = row.type
    /\ pending = {} => CacheView(Becca) = CacheView(RowOrderCache)

\* C16: after calls that all succeeded, every live attribute is in its
\* owner's owned list, in the index under type and lower-cased name and, when
\* it is a relation to a note of the cache, in that note's inbound list; and
\* an inbound list holds only relations whose value is that note.
C16_AttributesWired ==
    last.allOk =>
        /\ \A h \in attributes :
               /\ attrs[h].noteId \in notes => Includes(ownedAttributes[attrs[h].noteId], h)
               /\ IndexKey(attrs[h]) \in DOMAIN attributeIndex
               /\ Includes(attributeIndex[IndexKey(attrs[h])], h)
               /\ (attrs[h].type = "relation" /\ attrs[h].value \in notes) =>
                      Includes(targetRelations[attrs[h].value], h)
        /\ \A n \in notes : \A h \in Range(targetRelations[n]) :
               attrs[h].type = "relation" /\ attrs[h].value = n

\* a protected note comes to hold a decrypted title in this step
BecomesDecrypted(n) ==
    /\ isProtected'[n] /\ isDecrypted'[n]
    /\ ~(isProtected[n] /\ isDecrypted[n] /\ title'[n] = title[n])

\* C17: getTitleOrProtected() of a protected note, called while no protected
\* session is available, returns '[protected]' (neither the decrypted title
\* nor the ciphertext); and a protected note's title is decrypted only in a
\* step taken while a session is available.
C17_ProtectedTitleHiddenWithoutSession ==
    /\ []((last.op = "getTitleOrProtected" /\ ~last.ok /\ isProtected[last.note]) =>
              last.res = ProtectedTitle)
    /\ [][\A n \in TitledNotes :
              BecomesDecrypted(n) =>
                  isProtectedSessionAvailable(dataKey) /\ ~title'[n].encrypted]_vars

\* a title decrypted during a session is asked for after the session ended
C17_Witness ==
    /\ last.op = "getTitleOrProtected" /\ ~last.ok
    /\ isProtected[last.note] /\ isDecrypted[last.note]
    /\ title[last.note] = [text |-> "U", encrypted |-> FALSE]
    /\ last.res = ProtectedTitle

\* C18: at most one callback handed to the exclusive-execution primitive (a
\* script's or the sync run) executes at a time, and a callback starts only
\* for the caller that has waited longest.
C18_ExclusiveAndFifo ==
    /\ [](Cardinality(running) <= 1)
    /\ [][\A caller \in running' \ running :
              /\ waiters # <<>> /\ caller = Head(waiters)
              /\ running = {}]_vars

\* the sync run holds the mutex while three scripts wait in the order asked
C18_Witness ==
    /\ running = {"sync"} /\ locked
    /\ waiters = <<"script2", "script1", "script3">>

\* C19: after any sequence of addError calls (with the messages the search
\* reports, which are non-empty) getError() is the first error added, and
\* hasError() is true exactly when an error has been added.
C19_FirstErrorWins ==
    /\ hasError(searchContext) <=> last.res # <<>>
    /\ last.res = <<>> => getError(searchContext) = NullError
    /\ last.res # <<>> => getError(searchContext) = <<Head(last.res)>>

\* three errors were added, the later ones different from the first
C19_Witness ==
    /\ Len(last.res) = 3 /\ last.res[2] # last.res[1] /\ last.res[3] # last.res[1]
    /\ getError(searchContext) = <<last.res[1]>>


\* the lexer, the paren resolver or the parser fails on the query
QueryFails(query) ==
    \/ ~handleParens(lex(query).expressionTokens).ok
    \/ \E i \in 1..Len(query) : query[i] = "="

\* C20: after findResultsWithQuery on a query on which the lexer, the paren
\* resolver or the parser fails, no exception was thrown, the search context
\* holds an error message and the result list is empty.
C20_FailedQueryEmptyWithError ==
    (last.op = "findResultsWithQuery" /\ QueryFails(last.arg)) =>
        /\ ~last.thrown
        /\ hasError(searchContext)
        /\ last.res = {}


\* score descending, then path length ascending, then path title ascending
InOrder(s) ==
    \A i, j \in 1..Len(s) : i < j =>
        \/ s[i].score > s[j].score
        \/ /\ s[i].score = s[j].score
           /\ \/ s[i].pathLength < s[j].pathLength
              \/ /\ s[i].pathLength = s[j].pathLength
                 /\ s[i].notePathTitle <= s[j].notePathTitle

Reordered(s) ==
    {[i \in 1..Len(s) |-> s[p[i]]] : p \in ProductionOrders}

\* C21: results that were not already sorted come back by score descending,
\* then path length ascending, then path title ascending, and the same set of
\* results comes back as the same sequence whatever order it was produced in.
C21_ResultsInOneOrder ==
    (last.op = "orderResults" /\ ~last.sorted) =>
        /\ InOrder(last.res)
        /\ \A s \in Reordered(last.arg) : orderResults(s, FALSE) = last.res


\* the id the definition gives an attribute of a note
DefinedAttributeId(a) == AttributeIdOf(a.noteId \o "_" \o CharAt0(a.type) \o a.name)

\* a second check on the cache b creates nothing and saves nothing
ChecksToNothing(b) ==
    LET Same(r) ==
            /\ r.ok
            /\ r.b.notes = b.notes /\ r.b.noteType = b.noteType
            /\ r.b.parentBranches = b.parentBranches
            /\ r.b.attrs = b.attrs /\ r.b.attributes = b.attributes
            /\ r.b.ownedAttributes = b.ownedAttributes
            /\ r.b.saves = b.saves
    IN Same(checkHiddenSubtree(b, TRUE, TRUE))

\* C22: after checkHiddenSubtree has run, every note of the cache but root is a
\* note of the definition, every attribute carries the id made of its note, the
\* first letter of its type and its name, and a further run creates no note,
\* branch or attribute and saves nothing.
C22_HiddenSubtreePredictable ==
    (last.op = "checkHiddenSubtree" /\ last.arg = "checked") =>
        /\ last.ok
        /\ notes \subseteq HiddenDomain
        /\ \A h \in attributes : attrs[h].attributeId = DefinedAttributeId(attrs[h])
        /\ ChecksToNothing(Becca)

\* C22 witness: the check has run again after an attribute was removed, and the
\* launcher, found under another parent, and the thirteen attributes of the
\* definition are in the cache
C22_Witness ==
    /\ last.op = "checkHiddenSubtree" /\ last.arg = "checked" /\ last.step = MaxChecks
    /\ Cardinality(attributes) = Len(AttributeIdStrings)
    /\ Len(attrs) > Len(AttributeIdStrings)
    /\ Len(parentBranches["_lbBackInHistory"]) = 1
    /\ parentBranches["_lbBackInHistory"][1].parentNoteId = "_lbRoot"
    /\ saves > 0


\* what the deletion handlers of note n are to see in the cache b
HandlersSee(b, n) ==
    [note |-> n, name |-> "runOnNoteDeletion",
     targets |-> {b.attrs[h].value : h \in
                     {g \in Range(b.ownedAttributes[n]) \cap b.attributes :
                         /\ b.attrs[g].type = "relation"
                         /\ b.attrs[g].name = "runOnNoteDeletion"
                         /\ b.attrs[g].value \in b.notes}},
     parentBranches |-> b.parentBranches[n],
     ownedAttributes |-> Range(b.ownedAttributes[n]) \cap b.attributes]

DeleteNoteStep ==
    IF noteIsDeleted(Becca, last'.note)
    THEN UNCHANGED beccaVars
    ELSE /\ handlersRun' = Append(handlersRun, HandlersSee(Becca, last'.note))
         /\ parentBranches'[last'.note] = <<>>
         /\ \A p \in DOMAIN children' : ~Includes(children'[p], last'.note)
         /\ saves' >= saves + Len(parentBranches[last'.note])

\* C23: a deleteNote on a live note runs the runOnNoteDeletion handlers once,
\* seeing every parent branch and owned attribute the note had at the call, and
\* leaves the note without any parent branch; on a deleted note it runs no
\* handler and changes nothing in the cache.
C23_HandlersOnceBeforeDeletion ==
    [][(last'.op = "deleteNote" /\ last'.step = last.step + 1) => DeleteNoteStep]_vars

\* C23 witness: a note with two parents and a runOnNoteDeletion relation was deleted
C23_Witness ==
    /\ last.op = "deleteNote" /\ last.note \notin notes
    /\ Len(handlersRun) = 1
    /\ handlersRun[1].note = last.note
    /\ handlersRun[1].targets # {}
    /\ Len(handlersRun[1].parentBranches) = 2


\* the cache b with every memoized list cleared
AllCachesCleared(b) ==
    [b EXCEPT !.attributeCache = [n \in DOMAIN @ |-> NullAttrs],
              !.inheritableAttributeCache = [n \in DOMAIN @ |-> NullAttrs],
              !.ancestorCache = [n \in DOMAIN @ |-> NullNotes]]

\* C24: whatever the order in which the notes were first read, the memoized
\* effective attributes of every note are the list that getAttributes()
\* computes for it on the same graph with all caches empty.
C24_MemoizedIsFreshlyComputed ==
    \A n \in notes :
        attributeCache[n] # NullAttrs =>
            attributeCache[n] = getAttributes(AllCachesCleared(Becca), n).res


RECURSIVE FirstOccurrences(_, _, _)
\* s without every later element whose attributeId already occurred
FirstOccurrences(b, s, seen) ==
    IF s = <<>> THEN <<>>
    ELSE IF b.attrs[Head(s)].attributeId \in seen THEN FirstOccurrences(b, Tail(s), seen)
    ELSE <<Head(s)>> \o FirstOccurrences(b, Tail(s), seen \cup {b.attrs[Head(s)].attributeId})

RECURSIVE Effective(_, _, _), FromParents(_, _, _), FromTemplates(_, _, _)
\* each parent's inheritable effective attributes, in parent order
FromParents(b, ps, exempt) ==
    IF ps = <<>> THEN <<>>
    ELSE InheritableOnly(b, Effective(b, Head(ps), exempt)) \o FromParents(b, Tail(ps), exempt)

\* for each template/inherit relation of the list, the target's effective
\* attributes without the labels template and workspacetemplate
FromTemplates(b, as, exempt) ==
    IF as = <<>> THEN <<>>
    ELSE LET a == b.attrs[Head(as)]
             rest == FromTemplates(b, Tail(as), exempt)
         IN IF a.type = "relation" /\ a.name \in {"template", "inherit"} /\ a.value \in b.notes
            THEN LET target == Effective(b, a.value, exempt)
                 IN Filter(target, {h \in Range(target) :
                                       ~(b.attrs[h].type = "label"
                                         /\ b.attrs[h].name \in {"template", "workspacetemplate"})})
                    \o rest
            ELSE rest

\* the effective attributes as the claim states them; the notes in exempt
\* take nothing from their parents
Effective(b, n, exempt) ==
    LET soFar == b.ownedAttributes[n]
                 \o (IF n \in exempt THEN <<>> ELSE FromParents(b, b.parents[n], exempt))
    IN FirstOccurrences(b, soFar \o FromTemplates(b, soFar, exempt), {})

\* C25 as stated: on a graph without cycles, getAttributes() of a note with an
\* empty cache is its owned attributes, then its parents' inheritable effective
\* attributes, then the effective attributes of the targets of the
\* template/inherit relations among those (template markers left out), each
\* attribute kept at its first occurrence.
C25_EffectiveAttributesAsDefined ==
    \A n \in notes :
        attributeCache[n] = NullAttrs => getAttributes(Becca, n).res = Effective(Becca, n, {})

\* C25 amended: the same for every note, where root and _hidden take nothing
\* from their parents.
C25_EffectiveAttributesExceptHidden ==
    \A n \in notes :
        attributeCache[n] = NullAttrs =>
            getAttributes(Becca, n).res = Effective(Becca, n, {"root", "_hidden"})

\* C25 witness: B, a clone below A and root with a template relation to A, is
\* not memoized while A is; its list holds an attribute of each kind once
C25_Witness ==
    /\ attributeCache["B"] = NullAttrs /\ attributeCache["A"] # NullAttrs
    /\ parents["B"] = <<"root", "A">>
    /\ \E h \in Range(ownedAttributes["B"]) : isTemplateRelation(attrs[h]) /\ attrs[h].value = "A"
    /\ Len(getAttributes(Becca, "B").res) = 4


\* no note owns a template or inherit relation
NoTemplateRelations ==
    \A n \in notes : \A h \in Range(ownedAttributes[n]) : ~isTemplateRelation(attrs[h])

\* the notes that reach root over parent links without passing through _hidden
RECURSIVE OutsideHidden(_, _)
OutsideHidden(ns, k) ==
    IF k = 0 THEN ns
    ELSE OutsideHidden(ns \cup {m \in notes \ {"_hidden"} : Range(parents[m]) \cap ns # {}}, k - 1)

\* the notes all of whose parent chains to root pass through _hidden
BehindHidden == notes \ OutsideHidden({"root"}, Cardinality(notes))

\* C26: the effective attributes of root and of _hidden hold nothing taken
\* from a parent (each is the owned list when the note owns no template or
\* inherit relation), and without such relations an inheritable attribute
\* owned by root is in the effective attributes of no note behind _hidden.
C26_RootAndHiddenInheritNothing ==
    /\ \A n \in {"root", "_hidden"} \cap notes :
           (\A h \in Range(ownedAttributes[n]) : ~isTemplateRelation(attrs[h]))
               => getAttributes(Becca, n).res = ownedAttributes[n]
    /\ NoTemplateRelations =>
           \A m \in BehindHidden : \A h \in Range(ownedAttributes["root"]) :
               attrs[h].isInheritable => ~Includes(getAttributes(Becca, m).res, h)

\* C26 witness: root owns an inheritable attribute, no note owns a template
\* relation, B lies below A below _hidden only, and B's and _hidden's lists
\* were computed
C26_Witness ==
    /\ NoTemplateRelations
    /\ \E h \in Range(ownedAttributes["root"]) : attrs[h].isInheritable
    /\ {"_hidden", "A", "B"} \subseteq BehindHidden
    /\ parents["B"] = <<"A">>
    /\ attributeCache["B"] # NullAttrs /\ attributeCache["_hidden"] # NullAttrs
    /\ Len(attributeCache["B"]) = 2


\* the notes that own a template or inherit relation to a note of ns
TemplatedBy(ns) ==
    {m \in notes : \E h \in Range(ownedAttributes[m]) :
                       h \in attributes /\ isTemplateRelation(attrs[h]) /\ attrs[h].value \in ns}

\* n, its descendants, the notes with a template/inherit relation to any of
\* those, and so on
RECURSIVE Affected(_, _)
Affected(ns, k) ==
    IF k = 0 THEN ns
    ELSE Affected(ns \cup {m \in notes : Range(parents[m]) \cap ns # {}} \cup TemplatedBy(ns),
                  k - 1)

NothingCached(m) ==
    /\ attributeCache[m] = NullAttrs /\ inheritableAttributeCache[m] = NullAttrs
    /\ ancestorCache[m] = NullNotes /\ flatTextCache[m] = NullText

EverythingCached(m) ==
    /\ attributeCache[m] # NullAttrs /\ inheritableAttributeCache[m] # NullAttrs
    /\ ancestorCache[m] # NullNotes /\ flatTextCache[m] # NullText

\* one call of invalidateSubTree, by its effect on the four caches
InvalidateSubTreeStep ==
    LET cleared == Affected({last'.note}, Cardinality(notes))
    IN /\ stackOverflow' = FALSE
       /\ \A m \in cleared : NothingCached(m)'
       /\ \A m \in notes \ cleared :
              /\ attributeCache'[m] = attributeCache[m]
              /\ inheritableAttributeCache'[m] = inheritableAttributeCache[m]
              /\ ancestorCache'[m] = ancestorCache[m]
              /\ flatTextCache'[m] = flatTextCache[m]

\* C27: N.invalidateSubTree() returns, with or without cycles, having cleared
\* the attribute, inheritable-attribute, ancestor and flat-text caches of N,
\* of N's descendants and of the notes with a template/inherit relation to
\* any of those (and so on), and of no other note.
C27_InvalidateSubTreeClearsItsSet ==
    [][(last'.op = "invalidateSubTree" /\ last' # last) => InvalidateSubTreeStep]_vars

\* C27 witness: A and B are each other's parents, root has a template relation
\* to B, every cache of the three notes was filled, and invalidateSubTree of A
\* has just cleared them all
C27_Witness ==
    /\ last.op = "invalidateSubTree" /\ last.note = "A"
    /\ Includes(parents["A"], "B") /\ Includes(parents["B"], "A")
    /\ TemplatedBy({"B"}) = {"root"}
    /\ last.cached = notes
    /\ \A m \in notes : NothingCached(m)

\* C27 witness of the frame: invalidateSubTree of B has left every cache of
\* root and A filled
C27_WitnessOutside ==
    /\ last.op = "invalidateSubTree" /\ last.note = "B"
    /\ NothingCached("B")
    /\ EverythingCached("root") /\ EverythingCached("A")


\* the positions of a list of attributes never decrease
Ascending(s) == \A i, j \in 1..Len(s) : i < j => attrs[s[i]].position <= attrs[s[j]].position

\* C28: after any sequence of addAttribute calls, with default or explicitly
\* given positions, getOwnedAttributes() lists the owned attributes of a note
\* in ascending position.
C28_OwnedAttributesAscending ==
    \A n \in notes : Ascending(getAllOwnedAttributes(Becca, n))

\* the new attribute has the position the call gave it, or without one 10 more
\* than the largest position the note owned before
PositionAsClaimed ==
    attrs[last.h].position = IF last.position = NoPosition THEN last.maxOwned + 10
                             ELSE last.position

\* C29: an attribute saved without a position gets 10 more than the largest
\* position among the attributes its note already owns (10 when it owns
\* none); an explicitly given position is kept.
C29_DefaultPositionAfterOwned ==
    (last.op = "addAttributeAt" /\ last.ok) => PositionAsClaimed


\* the children of the tuples of parent p, in the order they were recorded
RECURSIVE ChildrenRecorded(_, _)
ChildrenRecorded(rels, p) ==
    IF rels = <<>> THEN <<>>
    ELSE (IF Head(rels).parentNoteId = p THEN <<Head(rels).childNoteId>> ELSE <<>>)
         \o ChildrenRecorded(Tail(rels), p)

\* the subtree is returned with every note once, and for every visited note
\* that is not a search note its tuples are its child edges, once each, other
\* than the edges to the notes of skipped
SubtreeAsClaimed(skipped) ==
    /\ NoDuplicates(last.res.notes)
    /\ Range(last.res.notes) \subseteq notes
    /\ \A p \in Range(last.res.notes) :
           noteType[p] # "search" =>
               ChildrenRecorded(last.res.relationships, p)
                   = Filter(children[p], Range(children[p]) \ skipped)

\* C30 as stated: getSubtree returns on any graph, with each note at most
\* once, and its relationships hold one tuple for every child edge of every
\* visited note that is not a search note, edges to visited notes included.
C30_SubtreeEveryChildEdge ==
    last.op = "getSubtree" => SubtreeAsClaimed({})

\* C30 amended: the same, where without includeHidden the edge to _hidden is
\* not recorded.
C30_SubtreeEveryChildEdgeButHidden ==
    last.op = "getSubtree" =>
        SubtreeAsClaimed(IF last.arg.includeHidden THEN {} ELSE {"_hidden"})

\* C30 witness: A and B are each other's parents, the search of S finds root
\* and B, and getSubtree of root with resolved searches returned the five
\* notes with B as the child of three tuples
C30_Witness ==
    /\ last.op = "getSubtree" /\ last.note = "root"
    /\ last.arg.resolveSearch /\ last.arg.includeHidden
    /\ last.arg.found["S"].ids = <<"root", "B">>
    /\ Includes(parents["A"], "B") /\ Includes(parents["B"], "A")
    /\ Len(last.res.notes) = 5
    /\ Cardinality({i \in 1..Len(last.res.relationships) :
                       last.res.relationships[i].childNoteId = "B"}) >= 3


\* c is not left out by the options of the last getSubtree call
KeptByOptions(c) ==
    /\ (c = "_hidden" => last.arg.includeHidden)
    /\ (last.arg.includeArchived \/ ~isArchived(Becca, c))

\* the walk went on: every child of a visited note that is not a search note
\* is visited too, unless the options leave it out
WalkComplete ==
    \A p \in Range(last.res.notes) :
        noteType[p] # "search" =>
            \A c \in Range(children[p]) : KeptByOptions(c) => Includes(last.res.notes, c)

\* C31: with resolveSearch, a search note whose search throws stays in the
\* result without children, the failure is logged and the walk goes on to the
\* other notes; and no search note ever has root or itself among its members.
C31_FailedSearchNoteKeptWithoutChildren ==
    (last.op = "getSubtree" /\ last.arg.resolveSearch) =>
        /\ \A s \in Range(last.res.notes) :
               noteType[s] = "search" =>
                   /\ "root" \notin Range(ChildrenRecorded(last.res.relationships, s))
                   /\ s \notin Range(ChildrenRecorded(last.res.relationships, s))
                   /\ last.arg.found[s].thrown =>
                          /\ ChildrenRecorded(last.res.relationships, s) = <<>>
                          /\ last.logged = 1
        /\ WalkComplete

\* C31 witness: the search of S throws in getSubtree of root; S is in the
\* result, and so is a note visited after it
C31_Witness ==
    /\ last.op = "getSubtree" /\ last.note = "root" /\ last.arg.resolveSearch
    /\ last.arg.found["S"].thrown
    /\ last.logged = 1
    /\ \E i, j \in 1..Len(last.res.notes) :
           i < j /\ last.res.notes[i] = "S" /\ last.res.notes[j] = "B"

\* C31 witness of the member set: the search of S gave root and B, and B alone
\* was taken as its member
C31_WitnessMembers ==
    /\ last.op = "getSubtree" /\ last.arg.resolveSearch
    /\ last.arg.found["S"].ids = <<"root", "B">>
    /\ ChildrenRecorded(last.res.relationships, "S") = <<"B">>


\* C32: getDistanceToAncestor(X) is 0 for X itself, otherwise the least number
\* of parent links from the note to X over all parents, and 999999, whatever
\* the depth of the note, exactly when no chain of parent links reaches X.
C32_DistanceIsLeastHops ==
    last.op = "getDistanceToAncestor" =>
        /\ last.logged = MinHops(last.note, last.arg)
        /\ (last.note = last.arg => last.logged = 0)
        /\ (last.logged = Unreachable <=> last.arg \notin {last.note} \cup Reachable(last.note))

\* C32 witness: B, a clone below root and below the search note S below A, is
\* asked for its distance to A, which is 2 through S and nothing through root
C32_Witness ==
    /\ last.op = "getDistanceToAncestor" /\ last.note = "B" /\ last.arg = "A"
    /\ parents["B"] = <<"root", "S">> /\ parents["S"] = <<"A">>
    /\ last.logged = 2

\* C32 witness of the sentinel: the same B, three links below root, is asked
\* for its distance to _hidden, none of its ancestors
C32_WitnessSentinel ==
    /\ last.op = "getDistanceToAncestor" /\ last.note = "B" /\ last.arg = "_hidden"
    /\ parents["B"] = <<"root", "S">> /\ parents["S"] = <<"A">> /\ parents["A"] = <<"root">>
    /\ last.logged = Unreachable


RECURSIVE Concatenated(_)
\* the pages of a request put together in index order
Concatenated(pages) ==
    IF pages = <<>> THEN "" ELSE Head(pages) \o Concatenated(Tail(pages))

\* how often the whole body of a request was applied
TimesApplied(requestId) ==
    Cardinality({i \in 1..Len(updates) : updates[i] = Concatenated(RequestPages[requestId])})

MultiPage == {r \in RequestIds : Len(RequestPages[r]) > 1}

\* nothing but the whole body of a request is ever applied, no body twice,
\* none before the request's last page, and an applied request leaves no
\* partial record
AppliedWholeAndOnce ==
    /\ \A i \in 1..Len(updates) : \E r \in RequestIds : updates[i] = Concatenated(RequestPages[r])
    /\ \A r \in MultiPage :
           /\ TimesApplied(r) <= 1
           /\ pagesSent[r].next < Len(RequestPages[r]) => TimesApplied(r) = 0
           /\ TimesApplied(r) = 1 => r \notin DOMAIN partialRequests

\* C33 as stated: in any interleaving of the pages of different requests, a
\* request of several pages is applied exactly once, when its last page
\* arrives, with the pages put together in index order; nothing of it is
\* applied before, and no partial record of it remains after.
C33_PagedUpdateAppliedOnce ==
    /\ AppliedWholeAndOnce
    /\ \A r \in MultiPage :
           pagesSent[r].next = Len(RequestPages[r]) =>
               TimesApplied(r) = 1 /\ r \notin DOMAIN partialRequests

\* C33 amended: the same for a request whose last page arrives within 20
\* minutes of its first; a later page may find the record cleaned up and is
\* then rejected, with nothing applied.
C33_PagedUpdateAppliedOnceInTime ==
    /\ AppliedWholeAndOnce
    /\ \A r \in MultiPage :
           pagesSent[r].next = Len(RequestPages[r]) =>
               /\ r \notin DOMAIN partialRequests
               /\ \/ TimesApplied(r) = 1 /\ ~pagesSent[r].rejected
                  \/ /\ TimesApplied(r) = 0
                     /\ pagesSent[r].rejected
                     /\ pagesSent[r].rejectedAt - pagesSent[r].startedAt > 20

\* C33 witness: the three pages of r2 arrived around the pages of r1 and both
\* bodies were applied, r2's first
C33_Witness ==
    /\ updates = <<"cde", "ab">>
    /\ pagesSent["r1"].startedAt < pagesSent["r2"].startedAt
    /\ partialRequests = <<>>
    /\ last.op = "update" /\ last.arg = "r1"

\* ---------------------------------------- C34: titles after the session
\* the words the decrypted title of a note leaves in a flat text
PlainTitleWords(n) == TitleWords([title[n] EXCEPT !.encrypted = FALSE])

\* the decrypted title of a protected note is in memory, as the title or in
\* the flat text
TitleInTheClear(n) ==
    /\ isProtected[n]
    /\ \/ ~title[n].encrypted
       \/ flatTextCache[n] # NullText /\ PlainTitleWords(n) \subseteq flatTextCache[n]

\* C34, for a session that expired: once checkProtectedSessionExpiration has
\* ended the protected session and no other is entered, neither the in-memory
\* title nor the flat text of a protected note contains its decrypted title.
C34_NoClearTitleAfterExpiration ==
    (/\ last.op = "checkProtectedSessionExpiration" /\ last.ok
     /\ ~isProtectedSessionAvailable(dataKey))
    => \A n \in SessionNotes : ~TitleInTheClear(n)

\* ---------------------------------------- C35: when the session expires
\* the later of the start of the session and its last touch
IdleSince ==
    IF lastProtectedSessionOperationDate > sessionStartedAt
    THEN lastProtectedSessionOperationDate
    ELSE sessionStartedAt

\* C35: checkProtectedSessionExpiration ends the session exactly when one is
\* available and more than protectedSessionTimeout seconds have passed since
\* it was started or last touched, whichever is later.
C35_ExpiresExactlyWhenIdle ==
    last.op = "checkProtectedSessionExpiration"
    => /\ last.ok => DateNow(clock) - IdleSince > protectedSessionTimeout * 1000
       /\ (~last.ok /\ isProtectedSessionAvailable(dataKey))
              => DateNow(clock) - IdleSince <= protectedSessionTimeout * 1000

\* ---------------------------------------- C36: the title that is saved
\* C36: the pojo to save of a protected note never carries a plaintext title:
\* of a decrypted note it carries the encryption of the in-memory title, of a
\* note that is not decrypted it carries no title.
C36_SavedTitleNeverPlain ==
    (last.op = "getPojoToSave" /\ isProtected[last.note] /\ ~last.res.thrown)
    => /\ last.res.hasTitle => last.res.title.encrypted
       /\ isDecrypted[last.note] => /\ last.res.hasTitle
                                    /\ last.res.title = encryptString(title[last.note])
                                    /\ ~title[last.note].encrypted
       /\ ~isDecrypted[last.note] => ~last.res.hasTitle /\ title[last.note].encrypted

\* C36 witness: a note loaded and decrypted in a protected session is saved with
\* the encryption of its title
C36_Witness ==
    /\ last.op = "getPojoToSave" /\ isProtected[last.note] /\ isDecrypted[last.note]
    /\ isProtectedSessionAvailable(dataKey)
    /\ last.res.hasTitle /\ last.res.title = [text |-> "U", encrypted |-> TRUE]

\* C36 witness: a note loaded again after the session is saved without title
C36_WitnessKept ==
    /\ last.op = "getPojoToSave" /\ isProtected[last.note] /\ ~isDecrypted[last.note]
    /\ sessionStartedAt # NoDate /\ dataKey = NullKey
    /\ ~last.res.hasTitle

\* ---------------------------------- C37: the attributes of the definition
\* the note n owns the attribute d as the definition declares it
OwnsAsDeclared(n, d) ==
    \E h \in Range(ownedAttributes[n]) \cap attributes :
        /\ attrs[h].type = d.type /\ attrs[h].name = d.name
        /\ attrs[h].value = d.value /\ attrs[h].isInheritable = d.isInheritable

\* the label name is among the effective attributes of the note n
EffectiveLabel(n, name) ==
    LET Has(r) == \E i \in 1..Len(r.res) :
                      r.b.attrs[r.res[i]].type = "label" /\ r.b.attrs[r.res[i]].name = name
    IN Has(getAttributes(Becca, n))

\* C37: after checkHiddenSubtree every attribute declared in the definition is
\* on its note with the declared type, name, value and inheritability, and the
\* excludeFromNoteMap label of _hidden is an effective label of every note of
\* the hidden subtree.
C37_DeclaredAttributesExist ==
    (last.op = "checkHiddenSubtree" /\ last.arg = "checked" /\ last.ok) =>
        /\ \A n \in HiddenNoteIds :
              \A i \in 1..Len(HIDDEN_SUBTREE_DEFINITION[n].attributes) :
                  OwnsAsDeclared(n, HIDDEN_SUBTREE_DEFINITION[n].attributes[i])
        /\ \A n \in HiddenNoteIds : EffectiveLabel(n, "excludeFromNoteMap")

\* ------------------------------------------ C38: all note paths archived
\* the note paths of the note n
PathsOf(n) == Range(getAllNotePaths(Becca, n, 0))

\* the path contains a note that is archived
HoldsArchived(path) == \E i \in 1..Len(path) : isArchived(Becca, path[i])

\* C38: areAllNotePathsArchived() throws when the note has no path at all;
\* otherwise it returns true exactly when every path of the note contains an
\* archived note, and false when some path contains none.
C38_AllPathsArchived ==
    last.op = "areAllNotePathsArchived" =>
        /\ last.thrown <=> PathsOf(last.note) = {}
        /\ ~last.thrown => (last.ok <=> \A path \in PathsOf(last.note) : HoldsArchived(path))

\* C38 witness: B is not archived and has two paths, each through the archived A
C38_Witness ==
    /\ last.op = "areAllNotePathsArchived" /\ last.note = "B" /\ last.ok /\ ~last.thrown
    /\ ~isArchived(Becca, "B")
    /\ Cardinality(PathsOf("B")) >= 2

\* C38 witness: one path of B is archived and another is not
C38_WitnessMixed ==
    /\ last.op = "areAllNotePathsArchived" /\ last.note = "B" /\ ~last.ok /\ ~last.thrown
    /\ \E path \in PathsOf("B") : HoldsArchived(path)

\* C38 witness: B has no path and the call throws
C38_WitnessThrown ==
    /\ last.op = "areAllNotePathsArchived" /\ last.thrown /\ PathsOf(last.note) = {}

\* ------------------------------------------ C39: completely hidden notes
\* C39: isHiddenCompletely() is true exactly when every note path of the note
\* contains _hidden, the _hidden note itself included.
C39_HiddenCompletelyIffEveryPathHidden ==
    last.op = "isHiddenCompletely" =>
        (last.ok <=> \A path \in PathsOf(last.note) : Includes(path, "_hidden"))

\* ------------------------------------------ C40: the order of the parents
\* the parent note of the branch is archived or completely hidden
SortsLast(branch) ==
    /\ branch.parentNoteId \in notes
    /\ isArchived(Becca, branch.parentNoteId) \/ isHiddenCompletely(Becca, branch.parentNoteId)

\* C40: after sortParents() no parent branch whose parent note is archived or
\* completely hidden precedes one whose parent note is neither, and parents
\* lists the existing parent notes in the order of parentBranches.
C40_ArchivedParentsLast ==
    last.op = "sortParents" =>
        LET branches == parentBranches[last.note]
        IN /\ \A i, j \in 1..Len(branches) :
                  i < j => ~(SortsLast(branches[i]) /\ ~SortsLast(branches[j]))
           /\ parents[last.note] =
                  Filter([i \in 1..Len(branches) |-> branches[i].parentNoteId], notes)

====
